---- MODULE Spec2Model ----
(***************************************************************************)
(* A model of ts-gen: the TS contract (name, ident, decl, decl_concrete,   *)
(* inline, inline_flattened, dependency_types, generics, output_path) as   *)
(* implemented for the built-in shapes and as generated by #[derive(TS)],  *)
(* the path helper `absolute`, the export entry points, and the helpers of *)
(* the derive macro: Inflection::apply, raw_name_to_ts_field and the       *)
(* attribute parsers parse_attrs and parse_serde_attrs.                    *)
(*                                                                         *)
(* Strings are TLA+ strings; format!/join are concatenation (\o).          *)
(* A call that returns a String is a record [ok |-> TRUE, val |-> s]; a    *)
(* call that panics is [ok |-> FALSE, val |-> panic message]; kind tells a *)
(* panic from an Err(e), whose val is the text e carries.                  *)
(***************************************************************************)
EXTENDS Integers, Sequences, FiniteSets, TLC

VARIABLES
    op,        \* the last operation the host program called
    ty,        \* the type (Self) it was called on
    res,       \* what the call returned (or the panic it raised)
    pc,        \* position of the export in progress: idle, walk, resolve, write, done, failed, panicked
    cwd,       \* std::env::current_dir() of the exporting process
    out_dir,   \* the output base directory of the export in progress
    frontier,  \* export_all: types still to visit
    seen,      \* export_all: identities already visited
    buffers,   \* export_all: output location -> declarations destined for it
    files,     \* the filesystem: files written so far
    dirs,      \* the filesystem: directories created so far
    input,     \* the arguments of the last call of a helper of the macro: variant, string, attributes
    features,  \* the cargo features the macro crate was built with
    stderr,    \* the standard error stream of the macro: whether it can be written, and what was written
    parsed,    \* the attribute set the last parse produced, if any
    dep,       \* what the last call of Dependency::from_ty returned
    cli_args,  \* the command line of the CLI wrapper (args: &Args of invoke)
    TS_GEN_EXPORT_DIR, \* the environment variable of that name in the CLI's environment, if set
    cargo_invocation,  \* the cargo command the CLI builds, and how far it got: built, spawned, exited
    generated  \* the export test the derive macro generated last, if any

vars == <<op, ty, res, pc, cwd, out_dir, frontier, seen, buffers, files, dirs, input, features, stderr, parsed, dep, cli_args, TS_GEN_EXPORT_DIR, cargo_invocation, generated>>

----------------------------------------------------------------------------
(* Bounds of the model *)

\* nesting depth of containers/wrappers/generic instantiations in the types the host calls the contract on
MaxNest == 2

----------------------------------------------------------------------------
(* Results and options *)

\* Option::is_some
is_some(o) == o.some

Ok(v) == [ok |-> TRUE, kind |-> "Ok", val |-> v]
Panic(msg) == [ok |-> FALSE, kind |-> "panic", val |-> msg]
None == [some |-> FALSE, val |-> ""]
Some(v) == [some |-> TRUE, val |-> v]

(* String helpers (std::str) *)

StartsWith(s, p) == Len(s) >= Len(p) /\ SubSeq(s, 1, Len(p)) = p
EndsWith(s, p) == Len(s) >= Len(p) /\ SubSeq(s, Len(s) - Len(p) + 1, Len(s)) = p

\* the positions of the occurrences of the character c in s, in increasing order
Positions(s, c) == SelectSeq([i \in 1..Len(s) |-> i], LAMBDA i : SubSeq(s, i, i) = c)

\* str::find(c): the 1-based position of the first occurrence of c, 0 when absent
Find(s, c) == IF Len(Positions(s, c)) = 0 THEN 0 ELSE Positions(s, c)[1]

RECURSIVE JoinStr(_, _)
\* [..].join(sep)
JoinStr(parts, sep) ==
    IF Len(parts) = 0 THEN ""
    ELSE IF Len(parts) = 1 THEN parts[1]
    ELSE parts[1] \o sep \o JoinStr(Tail(parts), sep)

RECURSIVE Flatten(_)
\* concatenation of a sequence of sequences
Flatten(ss) == IF Len(ss) = 0 THEN <<>> ELSE ss[1] \o Flatten(Tail(ss))

\* the first panic among a sequence of results evaluated left to right
FirstPanic(rs) == rs[CHOOSE i \in 1..Len(rs) : ~rs[i].ok /\ \A j \in 1..(i - 1) : rs[j].ok]
AllOk(rs) == \A i \in 1..Len(rs) : rs[i].ok
Vals(rs) == [i \in 1..Len(rs) |-> rs[i].val]

\* a faulty variant: the text is built whatever the evaluation of the argument did
Fmt_unchecked(pre, r, post) == Ok(pre \o r.val \o post)

\* format!("{pre}{}{post}", r): a panic raised while evaluating the argument r propagates
Fmt(pre, r, post) == IF r.ok THEN Ok(pre \o r.val \o post) ELSE r

\* format!("{a}{}{b}{}{c}", r1, r2), the arguments evaluated left to right
Fmt2(a, r1, b, r2, c) ==
    IF ~r1.ok THEN r1
    ELSE IF ~r2.ok THEN r2
    ELSE Ok(a \o r1.val \o b \o r2.val \o c)

\* format!("{pre}{}{post}", [rs..].join(sep)), the elements evaluated left to right
FmtJoin(pre, rs, sep, post) ==
    IF AllOk(rs) THEN Ok(pre \o JoinStr(Vals(rs), sep) \o post) ELSE FirstPanic(rs)

----------------------------------------------------------------------------
(* Rust types: a closed type is a term [k, id, n, args] *)

Ty(k, id, n, args) == [k |-> k, id |-> id, n |-> n, args |-> args]
Prim(id) == Ty("prim", id, 0, <<>>)
Tuple(args) == Ty("tuple", "", 0, args)
Wrapper(id, t) == Ty("wrapper", id, 0, <<t>>)
OptionT(t) == Ty("option", "Option", 0, <<t>>)
ResultT(t, e) == Ty("result", "Result", 0, <<t, e>>)
VecT(t) == Ty("vec", "Vec", 0, <<t>>)
ArrayT(t, n) == Ty("array", "", n, <<t>>)
MapT(k, v) == Ty("map", "HashMap", 0, <<k, v>>)
RangeT(t) == Ty("range", "Range", 0, <<t>>)
DerivedT(id, args) == Ty("derived", id, 0, args)
\* the dummy unit struct generated for generic parameter g
DummyT(g) == Ty("dummy", g, 0, <<>>)
\* a generic parameter in the declared type of a field
ParamT(g) == Ty("param", g, 0, <<>>)

----------------------------------------------------------------------------
(* The derive inputs: the structs of the host program that carry           *)
(* #[derive(TS)], as the macro sees them (DerivedTS plus the item's        *)
(* generics).  A <-> B is a dependency cycle; G is generic; Ov carries     *)
(* #[ts(type = "string")]; Multi lists the same dependency several times   *)
(* and shares its output location with Ov; Bad inlines a tuple field; Up   *)
(* and Far use parent-directory segments in export_to.                     *)

Field(name, t, inl) == [name |-> name, ty |-> t, inline |-> inl]

Derives ==
    [ A     |-> [ts_name |-> "A", params |-> <<>>, type_override |-> None,
                 fields |-> <<Field("b", Wrapper("Box", DerivedT("B", <<>>)), FALSE)>>,
                 export |-> TRUE, export_to |-> None],
      B     |-> [ts_name |-> "B", params |-> <<>>, type_override |-> None,
                 fields |-> <<Field("a", VecT(DerivedT("A", <<>>)), FALSE)>>,
                 export |-> FALSE, export_to |-> None],
      G     |-> [ts_name |-> "Gen", params |-> <<"T">>, type_override |-> None,
                 fields |-> <<Field("val", ParamT("T"), FALSE), Field("n", Prim("i32"), FALSE)>>,
                 export |-> TRUE, export_to |-> Some("gen/")],
      Ov    |-> [ts_name |-> "Ov", params |-> <<>>, type_override |-> Some("string"),
                 fields |-> <<>>,
                 export |-> TRUE, export_to |-> Some("nested/dir/name.ts")],
      Multi |-> [ts_name |-> "Multi", params |-> <<>>, type_override |-> None,
                 fields |-> <<Field("x", DerivedT("Ov", <<>>), FALSE),
                              Field("y", OptionT(DerivedT("Ov", <<>>)), FALSE),
                              Field("z", DerivedT("Ov", <<>>), FALSE)>>,
                 export |-> TRUE, export_to |-> Some("nested/dir/name.ts")],
      Bad   |-> [ts_name |-> "Bad", params |-> <<>>, type_override |-> None,
                 fields |-> <<Field("p", Tuple(<<Prim("i32"), Prim("String")>>), TRUE)>>,
                 export |-> FALSE, export_to |-> Some("bad/")],
      Up    |-> [ts_name |-> "Up", params |-> <<>>, type_override |-> None,
                 fields |-> <<Field("n", Prim("i32"), FALSE)>>,
                 export |-> TRUE, export_to |-> Some("../up/Up.ts")],
      Far   |-> [ts_name |-> "Far", params |-> <<>>, type_override |-> None,
                 fields |-> <<Field("s", Prim("String"), FALSE)>>,
                 export |-> TRUE, export_to |-> Some("../../../../Far.ts")] ]

DerivedIds == DOMAIN Derives

RECURSIVE Subst(_, _)
\* the declared type te of a field, with the generic parameters of the impl bound by env
Subst(te, env) ==
    IF te.k = "param" THEN env[te.id]
    ELSE [te EXCEPT !.args = [i \in 1..Len(te.args) |-> Subst(te.args[i], env)]]

\* the binding of the impl's generic parameters for Self = t, an instance of the derive input d
Env(d, t) ==
    [g \in {d.params[i] : i \in 1..Len(d.params)} |->
        t.args[CHOOSE i \in 1..Len(d.params) : d.params[i] = g]]

----------------------------------------------------------------------------
(* The TS contract.  TS(m, t) is <t as TS>::m().  name, dependency_types   *)
(* and generics return their value; ident, decl, decl_concrete, inline and *)
(* inline_flattened return Ok(string) or Panic(message); output_path       *)
(* returns an option.                                                      *)

RECURSIVE TS(_, _)

Name(t) == TS("name", t)
Names(ts) == [i \in 1..Len(ts) |-> Name(ts[i])]

\* Arrays longer than this limit will be emitted as Array<T>
ARRAY_TUPLE_LIMIT == 64

\* match name.find('<') { Some(i) => name[..i].to_owned(), None => name }
ident_of(name, i) == IF i = 0 THEN Ok(name) ELSE Ok(SubSeq(name, 1, i - 1))

\* the methods the trait gives a default body
TS_default(m, t) ==
    CASE m = "ident" -> ident_of(Name(t), Find(Name(t), "<"))
      [] m = "dependency_types" -> <<>>
      [] m = "generics" -> <<>>
      [] m = "output_path" -> None

\* the TypeScript literal impl_primitives! is invoked with
PrimLiteral(id) ==
    CASE id \in {"u8", "i32", "usize", "f64"} -> "number"
      [] id \in {"u64", "i64", "i128"} -> "bigint"
      [] id = "bool" -> "boolean"
      [] id \in {"char", "String", "str", "PathBuf"} -> "string"
      [] id = "()" -> "null"

impl_primitives(m, t) ==
    CASE m = "name" -> PrimLiteral(t.id)
      [] m = "decl" -> Panic(Name(t) \o " cannot be declared")
      [] m = "decl_concrete" -> Panic(Name(t) \o " cannot be declared")
      [] m = "inline" -> Ok(Name(t))
      [] m = "inline_flattened" -> Panic(Name(t) \o " cannot be flattened")
      [] OTHER -> TS_default(m, t)

impl_tuples(m, t) ==
    CASE m = "name" -> "[" \o JoinStr(Names(t.args), ", ") \o "]"
      [] m = "decl" -> Panic("tuple cannot be declared")
      [] m = "decl_concrete" -> Panic("tuple cannot be declared")
      [] m = "inline" -> Panic("tuple cannot be inlined!")
      [] m = "inline_flattened" -> Panic("tuple cannot be flattened")
      [] m = "dependency_types" -> t.args
      [] OTHER -> TS_default(m, t)

\* a faulty variant: a wrapper that forwards every method to the wrapped type
impl_wrapper_transparent(m, t) == TS(m, t.args[1])

impl_wrapper(m, t) ==
    LET T == t.args[1]
    IN CASE m = "name" -> Name(T)
         [] m = "decl" -> Panic("wrapper type cannot be declared")
         [] m = "decl_concrete" -> Panic("wrapper type cannot be declared")
         [] m = "inline" -> TS("inline", T)
         [] m = "inline_flattened" -> TS("inline_flattened", T)
         [] m = "dependency_types" -> TS("dependency_types", T)
         [] m = "generics" -> <<T>> \o TS("generics", T)
         [] OTHER -> TS_default(m, t)

impl_option(m, t) ==
    LET T == t.args[1]
    IN CASE m = "name" -> Name(T) \o " | null"
         [] m = "decl" -> Panic(Name(t) \o " cannot be declared")
         [] m = "decl_concrete" -> Panic(Name(t) \o " cannot be declared")
         [] m = "inline" -> Fmt("", TS("inline", T), " | null")
         [] m = "inline_flattened" -> Panic(Name(t) \o " cannot be flattened")
         [] m = "dependency_types" -> TS("dependency_types", T)
         [] m = "generics" -> TS("generics", T) \o <<T>>
         [] OTHER -> TS_default(m, t)

impl_result(m, t) ==
    LET T == t.args[1]
        E == t.args[2]
    IN CASE m = "name" -> "{ Ok : " \o Name(T) \o " } | { Err : " \o Name(E) \o " }"
         [] m = "decl" -> Panic(Name(t) \o " cannot be declared")
         [] m = "decl_concrete" -> Panic(Name(t) \o " cannot be declared")
         [] m = "inline" ->
                Fmt2("{ Ok : ", TS("inline", T), " } | { Err : ", TS("inline", E), " }")
         [] m = "inline_flattened" -> Panic(Name(t) \o " cannot be flattened")
         [] m = "dependency_types" -> TS("dependency_types", T) \o TS("dependency_types", E)
         [] m = "generics" -> TS("generics", T) \o <<T>> \o TS("generics", E) \o <<E>>
         [] OTHER -> TS_default(m, t)

impl_vec(m, t) ==
    LET T == t.args[1]
    IN CASE m = "name" -> "Array<" \o Name(T) \o ">"
         [] m = "ident" -> Ok("Array")
         [] m = "decl" -> Panic(Name(t) \o " cannot be declared")
         [] m = "decl_concrete" -> Panic(Name(t) \o " cannot be declared")
         [] m = "inline" -> Fmt("Array<", TS("inline", T), ">")
         [] m = "inline_flattened" -> Panic(Name(t) \o " cannot be flattened")
         [] m = "dependency_types" -> TS("dependency_types", T)
         [] m = "generics" -> TS("generics", T) \o <<T>>
         [] OTHER -> TS_default(m, t)

\* a faulty variant: name() turns to Array<T> one element earlier than inline()
impl_array_name_early(m, t) ==
    LET T == t.args[1]
        N == t.n
    IN CASE m = "name" ->
                IF N >= ARRAY_TUPLE_LIMIT THEN Name(VecT(T))
                ELSE "[" \o JoinStr([i \in 1..N |-> Name(T)], ", ") \o "]"
         [] m = "inline" ->
                IF N > ARRAY_TUPLE_LIMIT THEN TS("inline", VecT(T))
                ELSE FmtJoin("[", [i \in 1..N |-> TS("inline", T)], ", ", "]")
         [] m = "dependency_types" -> TS("dependency_types", T)
         [] m = "generics" -> TS("generics", T) \o <<T>>
         [] OTHER -> TS_default(m, t)

impl_array(m, t) ==
    LET T == t.args[1]
        N == t.n
    IN CASE m = "name" ->
                IF N > ARRAY_TUPLE_LIMIT THEN Name(VecT(T))
                ELSE "[" \o JoinStr([i \in 1..N |-> Name(T)], ", ") \o "]"
         [] m = "decl" -> Panic(Name(t) \o " cannot be declared")
         [] m = "decl_concrete" -> Panic(Name(t) \o " cannot be declared")
         [] m = "inline" ->
                IF N > ARRAY_TUPLE_LIMIT THEN TS("inline", VecT(T))
                ELSE FmtJoin("[", [i \in 1..N |-> TS("inline", T)], ", ", "]")
         [] m = "inline_flattened" -> Panic(Name(t) \o " cannot be flattened")
         [] m = "dependency_types" -> TS("dependency_types", T)
         [] m = "generics" -> TS("generics", T) \o <<T>>
         [] OTHER -> TS_default(m, t)

impl_hashmap(m, t) ==
    LET K == t.args[1]
        V == t.args[2]
    IN CASE m = "name" -> "{ [key: " \o Name(K) \o "]: " \o Name(V) \o " }"
         [] m = "ident" -> Panic("explicit panic")
         [] m = "decl" -> Panic(Name(t) \o " cannot be declared")
         [] m = "decl_concrete" -> Panic(Name(t) \o " cannot be declared")
         [] m = "inline" ->
                Fmt2("{ [key: ", TS("inline", K), "]: ", TS("inline", V), " }")
         [] m = "inline_flattened" -> Panic(Name(t) \o " cannot be flattened")
         [] m = "dependency_types" -> TS("dependency_types", K) \o TS("dependency_types", V)
         [] m = "generics" -> TS("generics", K) \o <<K>> \o TS("generics", V) \o <<V>>
         [] OTHER -> TS_default(m, t)

impl_range(m, t) ==
    LET I == t.args[1]
    IN CASE m = "name" -> "{ start: " \o Name(I) \o ", end: " \o Name(I) \o ", }"
         [] m = "decl" -> Panic(Name(t) \o " cannot be declared")
         [] m = "decl_concrete" -> Panic(Name(t) \o " cannot be declared")
         [] m = "inline" -> Panic(Name(t) \o " cannot be inlined")
         [] m = "inline_flattened" -> Panic(Name(t) \o " cannot be flattened")
         [] m = "dependency_types" -> TS("dependency_types", I)
         [] m = "generics" -> TS("generics", I) \o <<I>>
         [] OTHER -> TS_default(m, t)

----------------------------------------------------------------------------
(* #[derive(TS)]: the impl the macro generates from a DerivedTS *)

\* the fields of a struct as "name: type" entries; a field marked inline contributes its
\* type's inline(), any other field its type's name()
FieldType(d, t, i) == Subst(d.fields[i].ty, Env(d, t))

StructFields(d, t) ==
    [i \in 1..Len(d.fields) |->
        Fmt(d.fields[i].name \o ": ",
            IF d.fields[i].inline THEN TS("inline", FieldType(d, t, i)) ELSE Ok(Name(FieldType(d, t, i))),
            "")]

\* the DerivedTS of a struct: m selects its inline, inline_flattened or dependencies
struct_def(d, t, m) ==
    CASE m = "inline" -> FmtJoin("{ ", StructFields(d, t), ", ", " }")
      [] m = "inline_flattened" -> Some(FmtJoin("{ ", StructFields(d, t), ", ", " }"))
      [] m = "dependencies" ->
            Flatten([i \in 1..Len(d.fields) |->
                IF d.fields[i].inline THEN TS("dependency_types", FieldType(d, t, i))
                ELSE <<FieldType(d, t, i)>> \o TS("generics", FieldType(d, t, i))])

\* the DerivedTS of a struct that carries #[ts(type = "..")]
type_override_struct(d, t, m) ==
    CASE m = "inline" -> Ok(d.type_override.val)
      [] m = "inline_flattened" -> None
      [] m = "dependencies" -> <<>>

DerivedTS(d, t, m) ==
    IF d.type_override.some THEN type_override_struct(d, t, m) ELSE struct_def(d, t, m)

name_with_generics(d, t) ==
    IF Len(d.params) > 0
    THEN d.ts_name \o "<" \o JoinStr(Names(t.args), ", ") \o ">"
    ELSE d.ts_name

\* a faulty variant: the angle brackets are emitted also when there is no generic parameter
format_generics_always(d) == "<" \o JoinStr(d.params, ", ") \o ">"

format_generics(d) ==
    IF Len(d.params) = 0 THEN ""
    ELSE "<" \o JoinStr(d.params, ", ") \o ">"

\* the dummy structs in scope in the body of the generated decl(): the quote! of
\* generate_decl_fn splices none (generate_generic_types is spliced only into the export test)
DeclLocalItems(d) == {}

\* the dummy structs in scope in the body of the generated export test
TestLocalItems(d) == {d.params[i] : i \in 1..Len(d.params)}

\* what the identifier of generic parameter g denotes where `locals` are in scope, inside
\* the impl for Self = t: a local item shadows the impl's generic parameter
ResolveIdent(g, locals, d, t) == IF g \in locals THEN DummyT(g) ELSE Env(d, t)[g]

\* #rust_ty<#(#generic_idents,)*> as written in the body of decl()
DeclInlineType(d, t) ==
    DerivedT(t.id, [i \in 1..Len(d.params) |-> ResolveIdent(d.params[i], DeclLocalItems(d), d, t)])

\* a faulty variant: decl_concrete() generated with the body of decl()
generate_decl_fn_same(d, m, t) ==
    Fmt("type " \o d.ts_name \o format_generics(d) \o " = ",
        TS("inline", DeclInlineType(d, t)), ";")

generate_decl_fn(d, m, t) ==
    CASE m = "decl_concrete" -> Fmt("type " \o d.ts_name \o " = ", TS("inline", t), ";")
      [] m = "decl" ->
            Fmt("type " \o d.ts_name \o format_generics(d) \o " = ",
                TS("inline", DeclInlineType(d, t)), ";")

\* Some(v) => v, None => panic!(msg)
unwrap_or_panic(o, msg) == IF o.some THEN o.val ELSE Panic(msg)

generate_inline_fn(d, m, t) ==
    CASE m = "inline" -> DerivedTS(d, t, "inline")
      [] m = "inline_flattened" ->
            unwrap_or_panic(DerivedTS(d, t, "inline_flattened"), Name(t) \o " cannot be flattened")

generate_generics_fn(t) == Flatten([i \in 1..Len(t.args) |-> <<t.args[i]>> \o TS("generics", t.args[i])])

\* a faulty variant: export_to is always taken for a directory
output_path_fn_dir(d) ==
    IF d.export_to.some THEN Some(d.export_to.val \o d.ts_name \o ".ts")
    ELSE Some(d.ts_name \o ".ts")

\* the path the generated output_path() returns
output_path_fn(d) ==
    IF d.export_to.some /\ EndsWith(d.export_to.val, "/")
    THEN Some(d.export_to.val \o d.ts_name \o ".ts")
    ELSE IF d.export_to.some THEN Some(d.export_to.val)
    ELSE Some(d.ts_name \o ".ts")

into_impl(d, m, t) ==
    CASE m = "ident" -> Ok(d.ts_name)
      [] m = "name" -> name_with_generics(d, t)
      [] m \in {"decl", "decl_concrete"} -> generate_decl_fn(d, m, t)
      [] m \in {"inline", "inline_flattened"} -> generate_inline_fn(d, m, t)
      [] m = "generics" -> generate_generics_fn(t)
      [] m = "output_path" -> output_path_fn(d)
      [] m = "dependency_types" -> DerivedTS(d, t, "dependencies")

\* the impl generated for the dummy struct of a generic parameter
generate_generic_types(m, t) ==
    CASE m = "name" -> t.id
      [] m = "inline" -> Panic(Name(t) \o " cannot be inlined")
      [] m = "inline_flattened" -> Panic(Name(t) \o " cannot be flattened")
      [] m = "decl" -> Panic(Name(t) \o " cannot be declared")
      [] m = "decl_concrete" -> Panic(Name(t) \o " cannot be declared")
      [] OTHER -> TS_default(m, t)

\* <t as TS>::m(): the impl Rust selects for t
TS(m, t) ==
    CASE t.k = "prim" -> impl_primitives(m, t)
      [] t.k = "tuple" -> impl_tuples(m, t)
      [] t.k = "wrapper" -> impl_wrapper(m, t)
      [] t.k = "option" -> impl_option(m, t)
      [] t.k = "result" -> impl_result(m, t)
      [] t.k = "vec" -> impl_vec(m, t)
      [] t.k = "array" -> impl_array(m, t)
      [] t.k = "map" -> impl_hashmap(m, t)
      [] t.k = "range" -> impl_range(m, t)
      [] t.k = "derived" -> into_impl(Derives[t.id], m, t)
      [] t.k = "dummy" -> generate_generic_types(m, t)

----------------------------------------------------------------------------
(* Dependencies *)

\* TypeId::of::<T>(): two types have the same TypeId exactly when they are the same type
TypeIdOf(t) == t

\* Dependency::from_ty::<T>()
Dependency(type_id, ts_name, output_path) ==
    [type_id |-> type_id, ts_name |-> ts_name, output_path |-> output_path]

\* let output_path = T::output_path()?; Some(Dependency { .. })
dependency_at(t, output_path) ==
    IF ~output_path.some THEN None
    ELSE Some(Dependency(TypeIdOf(t), TS("ident", t).val, output_path.val))

\* a faulty variant: the output path is not looked at, every type is reported as a dependency
from_ty_unchecked(t) == Some(Dependency(TypeIdOf(t), TS("ident", t).val, TS("output_path", t).val))

\* a faulty variant: no type is reported as a dependency
from_ty_none(t) == None

from_ty(t) == dependency_at(t, TS("output_path", t))

\* Option::into_iter
into_iter(o) == IF is_some(o) THEN <<o.val>> ELSE <<>>

\* a faulty variant: a type listed several times is pushed once
Visit_once(tl) ==
    LET first == SelectSeq([i \in 1..Len(tl) |-> i],
                           LAMBDA i : from_ty(tl[i]).some /\ \A j \in 1..(i - 1) : tl[j] # tl[i])
    IN [k \in 1..Len(first) |-> from_ty(tl[first[k]]).val]

RECURSIVE Visit(_)
\* TS::dependencies(): the visitor pushes from_ty of every entry that has one, in order
Visit(tl) ==
    IF Len(tl) = 0 THEN <<>>
    ELSE into_iter(from_ty(tl[1])) \o Visit(Tail(tl))

dependencies(t) == Visit(TS("dependency_types", t))

----------------------------------------------------------------------------
(* The types the host program calls the contract on *)

Leaves == {Prim("i32"), Prim("String"), DerivedT("A", <<>>)}
ArrayLens == {0, 2}

Unary(S) ==
    UNION {{Wrapper("Box", t), OptionT(t), VecT(t), RangeT(t), Tuple(<<t>>), DerivedT("G", <<t>>)} : t \in S}
    \cup {ArrayT(t, n) : t \in S, n \in ArrayLens}

Binary(S) == UNION {{Tuple(<<a, b>>), ResultT(a, b), MapT(a, b)} : a \in S, b \in S}

RECURSIVE Level(_)
Level(n) == IF n = 0 THEN Leaves ELSE Level(n - 1) \cup Unary(Level(n - 1)) \cup Binary(Leaves)

\* the derived types without generic parameters, the dummy struct of G's parameter and G over it
Roots ==
    {DerivedT(id, <<>>) : id \in {i \in DerivedIds : Len(Derives[i].params) = 0}}
    \cup {DummyT("T"), DerivedT("G", <<DummyT("T")>>)}

Types == Level(MaxNest) \cup Roots

----------------------------------------------------------------------------
(* Paths (std::path on a Unix host): a path is the string it is written as *)

is_absolute(p) == StartsWith(p, "/")

\* the segments of p between its '/' separators
Split(p) ==
    LET cuts == <<0>> \o Positions(p, "/") \o <<Len(p) + 1>>
    IN [k \in 1..(Len(cuts) - 1) |-> SubSeq(p, cuts[k] + 1, cuts[k + 1] - 1)]

\* Path::components(): RootDir is "/", CurDir ".", ParentDir "..", anything else Normal;
\* empty segments and every "." but a leading one are dropped
components(p) ==
    LET segs == Split(p)
    IN (IF is_absolute(p) THEN <<"/">> ELSE IF segs[1] = "." THEN <<".">> ELSE <<>>)
       \o SelectSeq(segs, LAMBDA x : x # "" /\ x # ".")

\* Path::join / PathBuf::push
join(base, p) ==
    IF is_absolute(p) THEN p
    ELSE IF Len(base) > 0 /\ ~EndsWith(base, "/") THEN base \o "/" \o p
    ELSE base \o p

\* comps.iter().collect::<PathBuf>(): the path made of the components comps
collect(comps) ==
    IF Len(comps) > 0 /\ comps[1] = "/" THEN "/" \o JoinStr(Tail(comps), "/")
    ELSE JoinStr(comps, "/")

\* Path::parent(): the path without its last component
parent(p) ==
    LET cs == components(p)
    IN IF Len(cs) = 0 \/ cs = <<"/">> THEN None ELSE Some(collect(SubSeq(cs, 1, Len(cs) - 1)))

(* Errors (error.rs) *)

Err(e) == [ok |-> FALSE, kind |-> e.kind, val |-> e.msg]
CannotBeExported(s) == [kind |-> "CannotBeExported", msg |-> s]

\* (the two backquotes of the source text cannot be written in a TLA+ string and are left out)
ERROR_MESSAGE == "The path provided with #[ts(export_to = \"..\")] is not valid"

\* the loop of `absolute` over the components, out being the stack built so far
absolute_loop[out \in Seq(STRING), comps \in Seq(STRING)] ==
    IF Len(comps) = 0 THEN Ok(out)
    ELSE CASE comps[1] = "." -> absolute_loop[out, Tail(comps)]
           [] comps[1] = ".." ->
                IF Len(out) = 0 THEN Err(CannotBeExported(ERROR_MESSAGE))
                ELSE absolute_loop[SubSeq(out, 1, Len(out) - 1), Tail(comps)]
           [] OTHER -> absolute_loop[Append(out, comps[1]), Tail(comps)]

\* Ok(if !out.is_empty() { out.iter().collect() } else { PathBuf::from(".") })
collected(out) == IF ~out.ok THEN out ELSE IF Len(out.val) # 0 THEN Ok(collect(out.val)) ELSE Ok(".")

\* a faulty variant: a ".." met on an empty stack is ignored instead of reported
saturating_loop[out \in Seq(STRING), comps \in Seq(STRING)] ==
    IF Len(comps) = 0 THEN Ok(out)
    ELSE CASE comps[1] = "." -> saturating_loop[out, Tail(comps)]
           [] comps[1] = ".." ->
                saturating_loop[SubSeq(out, 1, Len(out) - (IF Len(out) = 0 THEN 0 ELSE 1)), Tail(comps)]
           [] OTHER -> saturating_loop[Append(out, comps[1]), Tail(comps)]

absolute_saturating(current_dir, path) ==
    IF is_absolute(path) THEN Ok(path)
    ELSE collected(saturating_loop[<<>>, components(join(current_dir, path))])

\* export::path::absolute, with current_dir the process's working directory
absolute(current_dir, path) ==
    IF is_absolute(path) THEN Ok(path)
    ELSE collected(absolute_loop[<<>>, components(join(current_dir, path))])

\* cli path::absolute: the copy of export::path::absolute in the CLI; the two differ in the
\* error only, here out.pop().ok_or_eyre("Invalid path")
path_absolute(current_dir, path) ==
    LET r == absolute(current_dir, path)
    IN IF r.ok THEN r ELSE Err([kind |-> "eyre::Report", msg |-> "Invalid path"])

\* export::default_out_dir(): TS_GEN_EXPORT_DIR, or ./bindings when it is not set
default_out_dir(env) == IF env.some THEN env.val ELSE "./bindings"

\* TS::default_output_path()
\* Some(default_out_dir().join(o?))
join_some(base, o) == IF ~o.some THEN None ELSE Some(join(base, o.val))

default_output_path(t, env) == join_some(default_out_dir(env), TS("output_path", t))

RECURSIVE type_name(_)
\* std::any::type_name::<T>(): the Rust name of the type
type_name(t) ==
    LET args == JoinStr([i \in 1..Len(t.args) |-> type_name(t.args[i])], ", ")
    IN CASE t.k \in {"prim", "dummy"} -> t.id
         [] t.k = "tuple" -> "(" \o args \o (IF Len(t.args) = 1 THEN ",)" ELSE ")")
         [] t.k = "array" -> "[" \o args \o "; " \o ToString(t.n) \o "]"
         [] t.k = "derived" -> "host::" \o t.id \o (IF Len(t.args) = 0 THEN "" ELSE "<" \o args \o ">")
         [] OTHER -> t.id \o "<" \o args \o ">"

----------------------------------------------------------------------------
(* The export pipeline *)

\* the bound on the frontier of the walk
MaxFrontier == 12

\* the working directories and TS_GEN_EXPORT_DIR values the exporting process may run with
Cwds == {"/", "/w/p"}
EnvDirs == {None, Some("/out"), Some("gen/ts")}

\* the types the host program exports
ExportRoots == Level(1) \cup Roots

\* what one visit contributes to its output location: the declaration and the imports it needs
Entry(t) ==
    [loc |-> TS("output_path", t).val, type_id |-> TypeIdOf(t),
     decl |-> TS("decl_concrete", t).val, deps |-> dependencies(t)]

\* the positions of the entries that are the first one of their output location
FirstOfLocation(es) ==
    SelectSeq([i \in 1..Len(es) |-> i], LAMBDA i : \A j \in 1..(i - 1) : es[j].loc # es[i].loc)

\* the output locations of the entries, in discovery order without repetition
Locations(es) == [k \in 1..Len(FirstOfLocation(es)) |-> es[FirstOfLocation(es)[k]].loc]

\* the entries of one location, one per type identity (the first one is kept)
RECURSIVE Dedup(_, _)
Dedup(es, ids) ==
    IF Len(es) = 0 THEN <<>>
    ELSE IF es[1].type_id \in ids THEN Dedup(Tail(es), ids)
    ELSE <<es[1]>> \o Dedup(Tail(es), ids \cup {es[1].type_id})

EntriesAt(es, loc) == Dedup(SelectSeq(es, LAMBDA e : e.loc = loc), {})

\* every dependency of the entries es
AllDeps(es) == UNION {{es[i].deps[j] : j \in 1..Len(es[i].deps)} : i \in 1..Len(es)}

\* the import groups of a location: one per other location referenced, naming every type imported from it
Imports(es, loc) ==
    {[from |-> l, names |-> {d.ts_name : d \in {x \in AllDeps(es) : x.output_path = l}}] :
        l \in {d.output_path : d \in AllDeps(es)} \ {loc}}

\* the file of one location: its resolved path, the import block and the declarations
File(path, loc, es) ==
    [path |-> path, loc |-> loc, imports |-> Imports(EntriesAt(es, loc), loc),
     decls |-> [i \in 1..Len(EntriesAt(es, loc)) |->
                  [type_id |-> EntriesAt(es, loc)[i].type_id, text |-> EntriesAt(es, loc)[i].decl]]]

\* the directory create_dir_all makes for the file at path: its parent, when it has one
DirsOf(path) == {parent(p).val : p \in {q \in {path} : parent(q).some}}

\* the outcome of an export: how it ended, what it returned, what it left on the filesystem
Outcome(end, r, fs, ds) == [pc |-> end, res |-> r, files |-> fs, dirs |-> ds]

\* the steps of export_to once the path abs and the text decl are evaluated
export_to_steps(abs, decl, entry) ==
    IF ~abs.ok THEN Outcome("failed", abs, {}, {})
    ELSE IF ~decl.ok THEN Outcome("panicked", decl, {}, {})
    ELSE Outcome("done", Ok(""), {File(abs.val, entry.loc, <<entry>>)}, DirsOf(abs.val))

\* export::export_to::<T>(path): resolve the path, generate the text, create the directory, write
export_to(t, path, current_dir) ==
    export_to_steps(absolute(current_dir, path), TS("decl_concrete", t), Entry(t))

\* a faulty variant: the missing path is not checked: export_to runs on an empty path
export_at_unwrapped(t, path, current_dir) == export_to(t, path.val, current_dir)

\* let path = Self::default_output_path().ok_or_else(..)?; export_to::<Self, _>(path)
export_at(t, path, current_dir) ==
    IF ~path.some THEN Outcome("failed", Err(CannotBeExported(type_name(t))), {}, {})
    ELSE export_to(t, path.val, current_dir)

\* TS::export()
export(t, env, current_dir) == export_at(t, default_output_path(t, env), current_dir)

----------------------------------------------------------------------------
(* Characters and strings of the macro's inputs: the ASCII characters and   *)
(* the letter E with acute accent in both cases as the non-ASCII letters    *)

\* the longest input string the helpers of the macro are applied to
MaxLen == 3

LowerCase == "abcdefghijklmnopqrstuvwxyz"
UpperCase == "ABCDEFGHIJKLMNOPQRSTUVWXYZ"

\* the characters of s, in order
Chars(s) == [i \in 1..Len(s) |-> SubSeq(s, i, i)]

\* char::is_lowercase, char::is_uppercase, char::is_numeric, char::is_alphanumeric: they
\* follow the Unicode properties, so they hold of non-ASCII letters too
is_lowercase(c) == Find(LowerCase \o "é", c) # 0
is_uppercase(c) == Find(UpperCase \o "É", c) # 0
is_numeric(c) == Find("0123456789", c) # 0
is_alphanumeric(c) == is_lowercase(c) \/ is_uppercase(c) \/ is_numeric(c)

\* char::to_ascii_uppercase, char::to_ascii_lowercase: they change the ASCII letters only
char_to_ascii_uppercase(c) ==
    IF Find(LowerCase, c) # 0 THEN SubSeq(UpperCase, Find(LowerCase, c), Find(LowerCase, c)) ELSE c
char_to_ascii_lowercase(c) ==
    IF Find(UpperCase, c) # 0 THEN SubSeq(LowerCase, Find(UpperCase, c), Find(UpperCase, c)) ELSE c

\* str::to_ascii_uppercase
to_ascii_uppercase(s) == JoinStr([i \in 1..Len(s) |-> char_to_ascii_uppercase(Chars(s)[i])], "")

\* str::to_uppercase: the uppercase of every letter, ASCII or not
to_uppercase(s) ==
    JoinStr([i \in 1..Len(s) |-> IF Chars(s)[i] = "é" THEN "É" ELSE char_to_ascii_uppercase(Chars(s)[i])], "")

\* a faulty variant: the case of every letter is swapped
to_lowercase_swapped(s) ==
    JoinStr([i \in 1..Len(s) |->
        IF is_uppercase(Chars(s)[i]) THEN char_to_ascii_lowercase(Chars(s)[i])
        ELSE char_to_ascii_uppercase(Chars(s)[i])], "")

\* str::to_lowercase: the lowercase of every letter, ASCII or not
to_lowercase(s) ==
    JoinStr([i \in 1..Len(s) |-> IF Chars(s)[i] = "É" THEN "é" ELSE char_to_ascii_lowercase(Chars(s)[i])], "")

RECURSIVE replace(_, _, _)
\* str::replace(from, to): every occurrence of the non-empty from, found left to right
replace(s, from, to) ==
    IF Len(s) = 0 THEN ""
    ELSE IF StartsWith(s, from) THEN to \o replace(SubSeq(s, Len(from) + 1, Len(s)), from, to)
    ELSE SubSeq(s, 1, 1) \o replace(SubSeq(s, 2, Len(s)), from, to)

RECURSIVE Strings(_)
\* the strings the helpers are called on: those of at most n characters written with a letter of
\* each case, a digit, '_', '$', '-' and '"', the names the documentation uses, and two names
\* with a non-ASCII letter
Strings(n) ==
    LET names == {"user_id", "userId", "UserId", "USER_ID", "é", "aÉ"}
    IN IF n = 0 THEN {""} \cup names
       ELSE Strings(0) \cup {s \o c : s \in Strings(n - 1) \ names,
                                       c \in {"a", "B", "_", "1", "$", "-", "\""}}

\* the identifiers of Rust: a letter or an underscore, then letters, digits and underscores; not the lone underscore
IsIdentifier(s) ==
    /\ Len(s) > 0
    /\ s # "_"
    /\ ~is_numeric(SubSeq(s, 1, 1))
    /\ \A i \in 1..Len(s) : is_alphanumeric(Chars(s)[i]) \/ Chars(s)[i] = "_"

\* a faulty variant: the first character is not looked at
raw_name_to_ts_field_any_start(value) ==
    IF \A i \in 1..Len(value) :
            is_alphanumeric(Chars(value)[i]) \/ Chars(value)[i] = "_" \/ Chars(value)[i] = "$"
    THEN value ELSE "\"" \o value \o "\""

\* utils.rs raw_name_to_ts_field
raw_name_to_ts_field(value) ==
    LET valid_chars == \A i \in 1..Len(value) :
            is_alphanumeric(Chars(value)[i]) \/ Chars(value)[i] = "_" \/ Chars(value)[i] = "$"
        does_not_start_with_digit == IF Len(value) = 0 THEN TRUE ELSE ~is_numeric(SubSeq(value, 1, 1))
        valid == valid_chars /\ does_not_start_with_digit
    IN IF valid THEN value ELSE "\"" \o value \o "\""

----------------------------------------------------------------------------
(* Inflection (attr/mod.rs) *)

Inflection == {"Lower", "Upper", "Camel", "Snake", "Pascal", "ScreamingSnake", "Kebab", "ScreamingKebab"}

\* a faulty variant: no separator is pushed before an uppercase letter
snake_unseparated(string) == to_lowercase(string)

\* Inflection::Snake: for (i, ch) in string.char_indices() { if ch.is_uppercase() && i != 0 { s.push('_') }; s.push(ch.to_ascii_lowercase()) }
snake(string) ==
    JoinStr([i \in 1..Len(string) |->
        (IF is_uppercase(Chars(string)[i]) /\ i # 1 THEN "_" ELSE "")
            \o char_to_ascii_lowercase(Chars(string)[i])], "")

RECURSIVE pascal_loop(_, _, _)
\* Inflection::Pascal, the loop over string.chars(): rest is what is left to read, s what was pushed
pascal_loop(rest, capitalize, s) ==
    IF Len(rest) = 0 THEN s
    ELSE IF SubSeq(rest, 1, 1) = "_" THEN pascal_loop(SubSeq(rest, 2, Len(rest)), TRUE, s)
    ELSE IF capitalize
    THEN pascal_loop(SubSeq(rest, 2, Len(rest)), FALSE, s \o char_to_ascii_uppercase(SubSeq(rest, 1, 1)))
    ELSE pascal_loop(SubSeq(rest, 2, Len(rest)), FALSE, s \o SubSeq(rest, 1, 1))

pascal(string) == pascal_loop(string, TRUE, "")

\* Inflection::Camel: pascal[..1].to_ascii_lowercase() + &pascal[1..]; the slice panics when pascal is empty
camel(p) ==
    IF Len(p) < 1 THEN Panic("byte index 1 is out of bounds of the string")
    ELSE Ok(char_to_ascii_lowercase(SubSeq(p, 1, 1)) \o SubSeq(p, 2, Len(p)))

\* Inflection::apply(self, string)
apply(self, string) ==
    CASE self = "Lower" -> Ok(to_lowercase(string))
      [] self = "Upper" -> Ok(to_uppercase(string))
      [] self = "Camel" -> camel(pascal(string))
      [] self = "Snake" -> Ok(snake(string))
      [] self = "Pascal" -> Ok(pascal(string))
      \* Self::Snake.apply(string).to_ascii_uppercase() and the like: the Snake arm never panics
      [] self = "ScreamingSnake" -> Ok(to_ascii_uppercase(snake(string)))
      [] self = "Kebab" -> Ok(replace(snake(string), "_", "-"))
      [] self = "ScreamingKebab" -> Ok(to_ascii_uppercase(replace(snake(string), "_", "-")))

----------------------------------------------------------------------------
(* Attributes: an occurrence #[path(key = lit, ..)] is its path and its    *)
(* comma-separated items; an item is a key, the kind of literal assigned   *)
(* to it (str, int, or none for a bare key), the literal's value, and      *)
(* whether a comma follows it in the argument list.                        *)

\* the most attribute occurrences on one item
MaxAttrs == 3

\* the most entries in the argument list of one occurrence
MaxItems == 2

Meta(key, lit, val, comma) == [key |-> key, lit |-> lit, val |-> val, comma |-> comma]
Item(key, lit, val) == Meta(key, lit, val, FALSE)

\* the items separated by commas, no comma after the last
Punctuated(items) == [i \in 1..Len(items) |-> [items[i] EXCEPT !.comma = i < Len(items)]]

\* an occurrence as it is usually written, and one written with the commas its entries carry
Attribute(path, items) == [path |-> path, items |-> Punctuated(items)]
Tokens(path, entries) == [path |-> path, items |-> entries]

\* the outcome of a parse: Ok(out), or Err(error) and no attribute set
ParseOk(out) == [ok |-> TRUE, err |-> "", out |-> Some(out)]

\* the attribute set of a container; Default::default() leaves every field unset
AttributeSet(rename, rename_all, exported, bound) ==
    [rename |-> rename, rename_all |-> rename_all, export |-> exported, bound |-> bound]
Default == AttributeSet(None, None, FALSE, <<>>)

NoAttributeSet == [some |-> FALSE, val |-> Default]
ParseErr(msg) == [ok |-> FALSE, err |-> msg, out |-> NoAttributeSet]

\* parse_assign_str: `=` then a literal, which must be a string
parse_assign_str(item) ==
    IF item.lit = "none" THEN ParseErr("expected =")
    ELSE IF item.lit = "str" THEN [ok |-> TRUE, err |-> "", out |-> item.val]
    ELSE ParseErr("expected string")

\* the values of rename_all and the Inflection each stands for
InflectionOf ==
    [ lowercase |-> "Lower", UPPERCASE |-> "Upper", camelCase |-> "Camel", snake_case |-> "Snake",
      PascalCase |-> "Pascal", SCREAMING_SNAKE_CASE |-> "ScreamingSnake" ]
        @@ ("kebab-case" :> "Kebab") @@ ("SCREAMING-KEBAB-CASE" :> "ScreamingKebab")

\* parse_assign_inflection
parse_assign_inflection(item) ==
    IF item.lit = "none" THEN ParseErr("expected =")
    ELSE IF item.lit # "str" THEN ParseErr("expected string")
    ELSE IF item.val \in DOMAIN InflectionOf THEN [ok |-> TRUE, err |-> "", out |-> InflectionOf[item.val]]
    ELSE ParseErr("Value \"" \o item.val \o "\" is not valid for \"rename_all\". Accepted values are: "
            \o "\"lowercase\", \"UPPERCASE\", \"camelCase\", \"snake_case\", \"PascalCase\", "
            \o "\"SCREAMING_SNAKE_CASE\", \"kebab-case\" and \"SCREAMING-KEBAB-CASE\"")

\* the keys each dialect accepts on a container, in the order of the match arms
Keys(dialect) ==
    IF dialect = "ts" THEN <<"rename", "rename_all", "export", "bound">>
    ELSE <<"rename", "rename_all">>

\* the match arm of an accepted key: it assigns the field of out the key stands for
Arm(out, item) ==
    CASE item.key = "rename" ->
            IF parse_assign_str(item).ok
            THEN ParseOk([out EXCEPT !.rename = Some(parse_assign_str(item).out)])
            ELSE parse_assign_str(item)
      [] item.key = "rename_all" ->
            IF parse_assign_inflection(item).ok
            THEN ParseOk([out EXCEPT !.rename_all = Some(parse_assign_inflection(item).out)])
            ELSE parse_assign_inflection(item)
      [] item.key = "export" -> ParseOk([out EXCEPT !.export = TRUE])
      [] item.key = "bound" ->
            IF parse_assign_str(item).ok
            THEN ParseOk([out EXCEPT !.bound = Append(out.bound, parse_assign_str(item).out)])
            ELSE parse_assign_str(item)

\* a faulty variant: an unknown key is skipped
unknown_key_skipped(x, keys, out) == ParseOk(out)

\* the arm x => syn_err!(..) of impl_parse!: the error names x and lists stringify!($k) of the arms
unknown_key(x, keys, out) ==
    ParseErr("Unknown attribute \"" \o x \o "\". Allowed attributes are: "
                \o JoinStr([i \in 1..Len(keys) |-> "\"" \o keys[i] \o "\""], ", "))

\* what the arm of the entry's key leaves unread of the entry: the arm of the bare key reads
\* no value
Unread(item) == item.key = "export" /\ item.lit # "none"

RECURSIVE parse_loop_trailing(_, _, _)
\* a faulty variant: a comma after the last entry is accepted
parse_loop_trailing(items, keys, out) ==
    IF Len(items) = 0 THEN ParseErr("unexpected end of input, expected identifier")
    ELSE LET r == IF \E i \in 1..Len(keys) : keys[i] = items[1].key
                  THEN Arm(out, items[1])
                  ELSE unknown_key(items[1].key, keys, out)
         IN IF ~r.ok THEN r
            ELSE IF Unread(items[1]) THEN ParseErr("expected ,")
            ELSE IF Len(items) = 1 THEN r
            ELSE IF ~items[1].comma THEN ParseErr("expected ,")
            ELSE parse_loop_trailing(Tail(items), keys, r.out.val)

RECURSIVE parse_loop(_, _, _)
\* impl_parse!, the loop of parse(): read a key, run its arm, stop when the input is empty,
\* else read a comma and go on (syn words the last error with the comma in backquotes)
parse_loop(items, keys, out) ==
    IF Len(items) = 0 THEN ParseErr("unexpected end of input, expected identifier")
    ELSE LET r == IF \E i \in 1..Len(keys) : keys[i] = items[1].key
                  THEN Arm(out, items[1])
                  ELSE unknown_key(items[1].key, keys, out)
         IN IF ~r.ok THEN r
            ELSE IF Unread(items[1]) THEN ParseErr("expected ,")
            ELSE IF Len(items) = 1 /\ ~items[1].comma THEN r
            ELSE IF ~items[1].comma THEN ParseErr("expected ,")
            ELSE parse_loop(Tail(items), keys, r.out.val)

\* A::try_from(attr) and Serde::<A>::try_from(attr): attr.parse_args(), and parse() starts from Self::default()
try_from(attr) == parse_loop(attr.items, Keys(attr.path), Default)

\* Attr::merge: field by field, what other sets overrides what self set; lists concatenate
merge(self, other) ==
    AttributeSet(IF other.rename.some THEN other.rename ELSE self.rename,
                 IF other.rename_all.some THEN other.rename_all ELSE self.rename_all,
                 self.export \/ other.export,
                 self.bound \o other.bound)

RECURSIVE fold(_, _)
\* Iterator::fold(init, |acc, cur| acc.merge(cur))
fold(acc, rest) == IF Len(rest) = 0 THEN acc ELSE fold(merge(acc, rest[1]), Tail(rest))

\* the occurrences named path among attrs, in source order
filter(attrs, path) == SelectSeq(attrs, LAMBDA a : a.path = path)

\* a faulty variant: an occurrence that fails to parse is dropped
parse_attrs_filter_map(attrs) ==
    ParseOk(fold(Default,
        [i \in 1..Len(SelectSeq(filter(attrs, "ts"), LAMBDA a : try_from(a).ok)) |->
            try_from(SelectSeq(filter(attrs, "ts"), LAMBDA a : try_from(a).ok)[i]).out.val]))

\* parse_attrs: the #[ts(..)] occurrences are parsed, the first error returned, else all merged
parse_attrs(attrs) ==
    LET rs == [i \in 1..Len(filter(attrs, "ts")) |-> try_from(filter(attrs, "ts")[i])]
    IN IF \A i \in 1..Len(rs) : rs[i].ok
       THEN ParseOk(fold(Default, [i \in 1..Len(rs) |-> rs[i].out.val]))
       \* collect::<Result<Vec<A>>>()? returns the first Err
       ELSE FirstPanic(rs)

\* what warning::print_warning writes to stderr for the attribute attr: the title, the
\* attribute as attr.to_token_stream() prints it, and the note
SerdeWarning(attr) ==
    "warning: failed to parse serde attribute\n  | \n  | "
        \o "#[" \o attr.path \o "("
        \o JoinStr([i \in 1..Len(attr.items) |->
               attr.items[i].key
                   \o (IF attr.items[i].lit = "str" THEN " = \"" \o attr.items[i].val \o "\""
                       ELSE IF attr.items[i].lit = "int" THEN " = " \o attr.items[i].val
                       ELSE "")], ", ")
        \o ")]"
        \o "\n  | \n  = note: ts-gen failed to parse this attribute. It will be ignored.\n"

\* parse_serde_attrs: an occurrence that fails to parse is warned about and left out.
\* writable tells whether writer.print(&buffer) succeeds; its Err is unwrapped, which panics.
\* The outcome is what is returned, or the panic, and what was written to stderr.
parse_serde_attrs(attrs, writable) ==
    LET serde == filter(attrs, "serde")
        failed == SelectSeq(serde, LAMBDA a : ~try_from(a).ok)
        accepted == SelectSeq(serde, LAMBDA a : try_from(a).ok)
    IN IF Len(failed) > 0 /\ ~writable
       THEN [res |-> Panic("called Result::unwrap() on an Err value"),
             out |-> NoAttributeSet, written |-> <<>>]
       ELSE [res |-> Ok(""),
             out |-> Some(fold(Default, [i \in 1..Len(accepted) |-> try_from(accepted[i]).out.val])),
             written |-> [i \in 1..Len(failed) |-> SerdeWarning(failed[i])]]

RECURSIVE AttributeLists(_)
\* the attributes of an item: the sequences of at most n occurrences
AttributeLists(n) ==
    IF n = 0 THEN {<<>>}
    ELSE {<<>>} \cup
         {Append(l, a) : l \in AttributeLists(n - 1), a \in
            { Attribute("ts", <<Item("rename", "str", "X"), Item("bound", "str", "T: B")>>),
              Attribute("ts", <<Item("rename", "str", "Y"), Item("export", "none", "")>>),
              Attribute("ts", <<Item("rename_all", "str", "camelCase"), Item("bound", "str", "T: A")>>),
              Attribute("ts", <<Item("export", "none", ""), Item("colour", "str", "red")>>),
              Attribute("ts", <<Item("rename_all", "str", "bogus")>>),
              Attribute("serde", <<Item("rename", "str", "Z")>>),
              Attribute("serde", <<Item("deny_unknown_fields", "none", "")>>),
              Attribute("derive", <<Item("Debug", "none", "")>>) }}

----------------------------------------------------------------------------
(* The host program: calls of the contract's methods and of the exports *)

NoType == Prim("()")

\* the arguments of a call of a helper of the macro
Input(variant, string, attrs) == [variant |-> variant, string |-> string, attrs |-> attrs]

\* the command line and the cargo command of a process that is not the CLI wrapper
NoArgs ==
    [output_directory |-> None, no_capture |-> FALSE, no_warnings |-> FALSE, esm_imports |-> FALSE, format |-> FALSE]
NoCommand == [program |-> "", argv |-> <<>>, env |-> None, stdout |-> "", state |-> "none", status |-> 0]

Init ==
    /\ op = "none"
    /\ ty = NoType
    /\ res = Ok("")
    /\ pc = "idle"
    /\ cwd = ""
    /\ out_dir = ""
    /\ frontier = <<>>
    /\ seen = {}
    /\ buffers = <<>>
    /\ files = {}
    /\ dirs = {}
    /\ input = Input("", "", <<>>)
    /\ features = {}
    /\ stderr = [writable |-> TRUE, written |-> <<>>]
    /\ parsed = NoAttributeSet
    /\ dep = None
    /\ cli_args = NoArgs
    /\ TS_GEN_EXPORT_DIR = None
    /\ cargo_invocation = NoCommand
    /\ generated = None

Terminal == {"returned", "done", "failed", "panicked"}

Call(m, t, r) ==
    /\ pc = "idle"
    /\ op' = m
    /\ ty' = t
    /\ res' = r
    /\ pc' = "returned"
    /\ UNCHANGED <<cwd, out_dir, frontier, seen, buffers, files, dirs>>
    /\ UNCHANGED <<input, features, stderr, parsed, dep, cli_args, TS_GEN_EXPORT_DIR, cargo_invocation, generated>>

CallName == pc = "idle" /\ \E t \in Types : Call("name", t, Ok(Name(t)))
CallIdent == pc = "idle" /\ \E t \in Types : Call("ident", t, TS("ident", t))
CallDecl == pc = "idle" /\ \E t \in Types : Call("decl", t, TS("decl", t))
CallDeclConcrete == pc = "idle" /\ \E t \in Types : Call("decl_concrete", t, TS("decl_concrete", t))
CallInline == pc = "idle" /\ \E t \in Types : Call("inline", t, TS("inline", t))
CallInlineFlattened == pc = "idle" /\ \E t \in Types : Call("inline_flattened", t, TS("inline_flattened", t))
CallOutputPath == pc = "idle" /\ \E t \in Types : Call("output_path", t, TS("output_path", t))

\* T::export()
\* a call of an export that runs in one step, with outcome r
Run(m, t, env, c, r) ==
    /\ pc = "idle"
    /\ op' = m
    /\ ty' = t
    /\ cwd' = c
    /\ out_dir' = default_out_dir(env)
    /\ res' = r.res
    /\ pc' = r.pc
    /\ files' = files \cup r.files
    /\ dirs' = dirs \cup r.dirs
    /\ UNCHANGED <<frontier, seen, buffers>>
    /\ UNCHANGED <<input, features, stderr, parsed, dep, cli_args, TS_GEN_EXPORT_DIR, cargo_invocation, generated>>

Export == pc = "idle" /\ \E t \in ExportRoots, env \in EnvDirs, c \in Cwds : Run("export", t, env, c, export(t, env, c))

\* T::export_all(): the walk starts with the root on the frontier
ExportAll ==
    \E t \in ExportRoots, env \in EnvDirs, c \in Cwds :
        /\ pc = "idle"
        /\ op' = "export_all"
        /\ ty' = t
        /\ cwd' = c
        /\ out_dir' = default_out_dir(env)
        /\ res' = Ok("")
        /\ pc' = "walk"
        /\ frontier' = <<t>>
        /\ seen' = {}
        /\ buffers' = <<>>
        /\ UNCHANGED <<files, dirs>>
        /\ UNCHANGED <<input, features, stderr, parsed, dep, cli_args, TS_GEN_EXPORT_DIR, cargo_invocation, generated>>

\* a faulty variant: the walk keeps no record of what it visited
Unvisited_always(t, visited) == TRUE

\* whether the walk expands t: it does unless t's identity was visited before
Unvisited(t, visited) == TypeIdOf(t) \notin visited

\* the types a visit of t pushes onto the frontier
Pushed(t) == TS("dependency_types", t) \o TS("generics", t)

\* one step of the walk: pop a type; skip it if visited; else mark it, record its declaration
\* at its output location if it has one, and push its dependency types and generics
WalkStep(t, exportable, decl, pushed, entry) ==
    /\ pc = "walk"
    /\ IF ~Unvisited(t, seen)
       THEN /\ frontier' = Tail(frontier)
            /\ UNCHANGED <<seen, buffers, pc, res>>
       ELSE IF exportable /\ ~decl.ok
       THEN /\ pc' = "panicked"
            /\ res' = decl
            /\ UNCHANGED <<frontier, seen, buffers>>
       ELSE /\ Len(Tail(frontier) \o pushed) <= MaxFrontier
            /\ frontier' = Tail(frontier) \o pushed
            /\ seen' = seen \cup {TypeIdOf(t)}
            /\ buffers' = IF exportable THEN Append(buffers, entry) ELSE buffers
            /\ UNCHANGED <<pc, res>>
    /\ UNCHANGED <<op, ty, cwd, out_dir, files, dirs>>
    /\ UNCHANGED <<input, features, stderr, parsed, dep, cli_args, TS_GEN_EXPORT_DIR, cargo_invocation, generated>>

Walk ==
    \E t \in {frontier[i] : i \in {1} \cap DOMAIN frontier} :
        WalkStep(t, TS("output_path", t).some, TS("decl_concrete", t), Pushed(t), Entry(t))

\* the resolved path of output location loc
Resolved(loc) == absolute(cwd, join(out_dir, loc))

\* the walk is over: every output location is resolved before anything is written
Resolve ==
    /\ pc = "walk"
    /\ Len(frontier) = 0
    /\ LET locs == Locations(buffers)
           rs == [i \in 1..Len(locs) |-> Resolved(locs[i])]
       IN IF AllOk(rs)
          THEN pc' = "write" /\ UNCHANGED res
          ELSE pc' = "failed" /\ res' = FirstPanic(rs)
    /\ UNCHANGED <<op, ty, cwd, out_dir, frontier, seen, buffers, files, dirs>>
    /\ UNCHANGED <<input, features, stderr, parsed, dep, cli_args, TS_GEN_EXPORT_DIR, cargo_invocation, generated>>

Unwritten == SelectSeq(Locations(buffers), LAMBDA l : \A f \in files : f.loc # l)

\* write the file of the next output location
Write ==
    /\ pc = "write"
    /\ Len(Unwritten) > 0
    /\ LET loc == Unwritten[1]
           path == Resolved(loc).val
       IN /\ files' = files \cup {File(path, loc, buffers)}
          /\ dirs' = dirs \cup DirsOf(path)
    /\ UNCHANGED <<op, ty, res, pc, cwd, out_dir, frontier, seen, buffers>>
    /\ UNCHANGED <<input, features, stderr, parsed, dep, cli_args, TS_GEN_EXPORT_DIR, cargo_invocation, generated>>

\* every file is written: export_all returns Ok(())
Finish ==
    /\ pc = "write"
    /\ Len(Unwritten) = 0
    /\ pc' = "done"
    /\ res' = Ok("")
    /\ UNCHANGED <<op, ty, cwd, out_dir, frontier, seen, buffers, files, dirs>>
    /\ UNCHANGED <<input, features, stderr, parsed, dep, cli_args, TS_GEN_EXPORT_DIR, cargo_invocation, generated>>

\* the call is over; the next one starts from a fresh process and output directory
Restart ==
    /\ pc \in Terminal
    /\ op' = "none"
    /\ ty' = NoType
    /\ res' = Ok("")
    /\ pc' = "idle"
    /\ cwd' = ""
    /\ out_dir' = ""
    /\ frontier' = <<>>
    /\ seen' = {}
    /\ buffers' = <<>>
    /\ files' = {}
    /\ dirs' = {}
    /\ input' = Input("", "", <<>>)
    /\ features' = {}
    /\ stderr' = [writable |-> TRUE, written |-> <<>>]
    /\ parsed' = NoAttributeSet
    /\ dep' = None
    /\ cli_args' = NoArgs
    /\ TS_GEN_EXPORT_DIR' = None
    /\ cargo_invocation' = NoCommand
    /\ generated' = None

Next ==
    \/ CallName
    \/ CallIdent
    \/ CallDecl
    \/ CallDeclConcrete
    \/ CallInline
    \/ CallInlineFlattened
    \/ CallOutputPath
    \/ Export
    \/ ExportAll
    \/ Walk
    \/ Resolve
    \/ Write
    \/ Finish
    \/ Restart

Spec == Init /\ [][Next]_vars

\* the export runs to completion: nothing suspends a step that can be taken
FairSpec == Spec /\ WF_vars(Walk) /\ WF_vars(Resolve) /\ WF_vars(Write) /\ WF_vars(Finish)

----------------------------------------------------------------------------
(* The helpers of the macro and Dependency::from_ty, each called on its own *)

\* a call of a helper of the macro: r is what it returns, p the attribute set it produced
CallHelper(m, inp, fs, err, r, p) ==
    /\ pc = "idle"
    /\ op' = m
    /\ input' = inp
    /\ features' = fs
    /\ stderr' = err
    /\ res' = r
    /\ parsed' = p
    /\ pc' = "returned"
    /\ UNCHANGED <<ty, cwd, out_dir, frontier, seen, buffers, files, dirs, dep>>
    /\ UNCHANGED <<cli_args, TS_GEN_EXPORT_DIR, cargo_invocation, generated>>

CallApply ==
    /\ pc = "idle"
    /\ \E v \in Inflection, s \in Strings(MaxLen) :
        CallHelper("apply", Input(v, s, <<>>), features, stderr, apply(v, s), parsed)

\* the variant just applied is applied to what it returned
ApplyAgain ==
    /\ op = "apply"
    /\ pc = "returned"
    /\ res.ok
    /\ op' = "apply_again"
    /\ input' = Input(input.variant, res.val, <<>>)
    /\ res' = apply(input.variant, res.val)
    /\ UNCHANGED <<ty, pc, cwd, out_dir, frontier, seen, buffers, files, dirs, features, stderr, parsed, dep, cli_args, TS_GEN_EXPORT_DIR, cargo_invocation, generated>>

CallRawNameToTsField ==
    /\ pc = "idle"
    /\ \E s \in Strings(MaxLen) :
        CallHelper("raw_name_to_ts_field", Input("", s, <<>>), features, stderr,
                   Ok(raw_name_to_ts_field(s)), parsed)

\* parse_attrs returns Ok(out) or Err(error)
ParseAttrs ==
    /\ pc = "idle"
    /\ \E attrs \in AttributeLists(MaxAttrs) : \E r \in {parse_attrs(attrs)} :
        CallHelper("parse_attrs", Input("", "", attrs), features, stderr,
                   IF r.ok THEN Ok("") ELSE Err([kind |-> "syn::Error", msg |-> r.err]), r.out)

\* parse_serde_attrs exists under the feature serde-compat; the macro crate is built with that
\* feature, with or without no-serde-warnings; a write to stderr succeeds or fails
ParseSerdeAttrs ==
    /\ pc = "idle"
    /\ \E attrs \in AttributeLists(MaxAttrs), fs \in {{"serde-compat"}, {"serde-compat", "no-serde-warnings"}},
       writable \in BOOLEAN : \E r \in {parse_serde_attrs(attrs, writable)} :
        /\ "serde-compat" \in fs
        /\ CallHelper("parse_serde_attrs", Input("", "", attrs), fs,
                      [writable |-> writable, written |-> r.written], r.res, r.out)

CallFromTy ==
    /\ pc = "idle"
    /\ \E t \in Types :
        /\ op' = "from_ty"
        /\ ty' = t
        /\ res' = Ok("")
        /\ dep' = from_ty(t)
        /\ pc' = "returned"
        /\ UNCHANGED <<cwd, out_dir, frontier, seen, buffers, files, dirs, input, features, stderr, parsed>>
        /\ UNCHANGED <<cli_args, TS_GEN_EXPORT_DIR, cargo_invocation, generated>>

\* <[T; N]>::name() and <[T; N]>::inline(), for lengths on both sides of ARRAY_TUPLE_LIMIT
CallArray ==
    /\ pc = "idle"
    /\ \E t \in Level(1), n \in {0, 1, ARRAY_TUPLE_LIMIT - 1, ARRAY_TUPLE_LIMIT, ARRAY_TUPLE_LIMIT + 1} :
        \/ Call("name", ArrayT(t, n), Ok(Name(ArrayT(t, n))))
        \/ Call("inline", ArrayT(t, n), TS("inline", ArrayT(t, n)))

\* T::dependencies(): the call returns the Vec<Dependency>
CallDependencies ==
    /\ pc = "idle"
    /\ \E t \in Types :
        Call("dependencies", t, [ok |-> TRUE, kind |-> "Vec<Dependency>", val |-> dependencies(t)])

\* the generic parameters of the derive input d replaced by their dummy structs
filter_generic_params(d) == [i \in 1..Len(d.params) |-> DummyT(d.params[i])]

\* a faulty variant: the raw-identifier prefix stays in the name of the test
generate_export_test_raw(d, id, rust_ty) ==
    [attrs |-> <<"cfg(test)", "test">>,
     test_fn |-> "export_bindings_" \o to_lowercase(rust_ty),
     generic_types |-> TestLocalItems(d),
     ty |-> DerivedT(id, filter_generic_params(d)),
     call |-> "export_all"]

\* DerivedTS::generate_export_test: the #[cfg(test)] #[test] function that exports the type
generate_export_test(d, id, rust_ty) ==
    [attrs |-> <<"cfg(test)", "test">>,
     test_fn |-> "export_bindings_" \o replace(to_lowercase(rust_ty), "r#", ""),
     generic_types |-> TestLocalItems(d),
     ty |-> DerivedT(id, filter_generic_params(d)),
     call |-> "export_all"]

\* the `export` of into_impl: allow_export.then(|| self.generate_export_test(..))
into_impl_export(fs, d, id, rust_ty) ==
    IF "export" \in fs /\ d.export THEN Some(generate_export_test(d, id, rust_ty)) ELSE None

\* the derive macro expands on the item id, written plainly or as a raw identifier, in a
\* build of the macro crate with the features fs
IntoImpl ==
    /\ pc = "idle"
    /\ \E id \in DerivedIds, raw \in BOOLEAN, fs \in {{}, {"export"}, {"serde-compat"}, {"export", "serde-compat"}} :
        \E rust_ty \in {IF raw THEN "r#" \o id ELSE id} :
            /\ op' = "into_impl"
            /\ input' = Input(id, rust_ty, <<>>)
            /\ features' = fs
            /\ generated' = into_impl_export(fs, Derives[id], id, rust_ty)
            /\ res' = Ok("")
            /\ pc' = "returned"
            /\ UNCHANGED <<ty, cwd, out_dir, frontier, seen, buffers, files, dirs, stderr, parsed, dep>>
            /\ UNCHANGED <<cli_args, TS_GEN_EXPORT_DIR, cargo_invocation>>

\* the paths handed to `absolute`: relative and absolute ones, with and without "." and ".."
Paths ==
    {"a", "./a/b", "a/../b", ".", "..", "../x", "../..", "../../..", "../../../..",
     "/srv/ts", "/a/../b", "/a/./b", "/.."}

\* absolute(path) of the export (copy = "export") and of the CLI (copy = "cli"), called in a
\* process whose working directory is c
CallAbsolute ==
    /\ pc = "idle"
    /\ \E copy \in {"export", "cli"}, c \in Cwds, p \in Paths :
        /\ op' = "absolute"
        /\ input' = Input(copy, p, <<>>)
        /\ cwd' = c
        /\ res' = IF copy = "export" THEN absolute(c, p) ELSE path_absolute(c, p)
        /\ pc' = "returned"
        /\ UNCHANGED <<ty, out_dir, frontier, seen, buffers, files, dirs, features, stderr, parsed, dep>>
        /\ UNCHANGED <<cli_args, TS_GEN_EXPORT_DIR, cargo_invocation, generated>>

\* the entries an argument list is written with
Metas ==
    {Meta(it.key, it.lit, it.val, c) :
        it \in {Item("rename", "str", "X"), Item("rename", "str", "Y"), Item("rename", "none", ""),
                Item("export", "none", ""), Item("export", "str", "x"),
                Item("bound", "str", "T: A"), Item("colour", "str", "red")},
        c \in BOOLEAN}

RECURSIVE MetaLists(_)
\* the argument lists of at most n entries, well punctuated or not
MetaLists(n) ==
    IF n = 0 THEN {<<>>}
    ELSE {<<>>} \cup {Append(l, e) : l \in MetaLists(n - 1), e \in Metas}

\* A::try_from(attr) on one occurrence, of the native or of the serde dialect
CallTryFrom ==
    /\ pc = "idle"
    /\ \E path \in {"ts", "serde"}, l \in MetaLists(MaxItems) : \E r \in {try_from(Tokens(path, l))} :
        CallHelper("try_from", Input("", "", <<Tokens(path, l)>>), features, stderr,
                   IF r.ok THEN Ok("") ELSE Err([kind |-> "syn::Error", msg |-> r.err]), r.out)

UnitNext ==
    \/ CallApply
    \/ ApplyAgain
    \/ CallRawNameToTsField
    \/ ParseAttrs
    \/ ParseSerdeAttrs
    \/ CallOutputPath
    \/ CallFromTy
    \/ CallDependencies
    \/ CallArray
    \/ IntoImpl
    \/ CallAbsolute
    \/ CallTryFrom
    \/ Restart

UnitSpec == Init /\ [][UnitNext]_vars

----------------------------------------------------------------------------
(* The CLI wrapper (cli/src): it resolves the export directory, builds the  *)
(* cargo command that runs the export tests, spawns it and waits for it     *)

\* a faulty variant: the environment variable is looked at before the argument
export_dir_env_first(args, var) ==
    IF var.some THEN var.val
    ELSE IF args.output_directory.some THEN args.output_directory.val
    ELSE "./bindings"

\* path::export_dir(args), var being std::env::var("TS_GEN_EXPORT_DIR")
export_dir(args, var) ==
    LET env_export_dir == IF ~var.some THEN "./bindings" ELSE var.val
    IN IF ~args.output_directory.some THEN env_export_dir ELSE args.output_directory.val

\* a faulty variant: the command is built whether or not the directory was resolved
invoke_unresolved(args, var, current_dir) ==
    [res |-> Ok(""),
     command |-> [program |-> "cargo", argv |-> <<"test", "export_bindings_">>, env |-> None,
                  stdout |-> "piped", state |-> "built", status |-> 0]]

\* cargo::invoke up to the spawn: the command as built so far, and the error that `?` returns
\* when the export directory cannot be resolved
invoke(args, var, current_dir) ==
    LET dir == path_absolute(current_dir, export_dir(args, var))
        feature(field, name) == IF field THEN <<"--features", "ts-gen/" \o name>> ELSE <<>>
        started ==
            [program |-> "cargo",
             argv |-> <<"test", "export_bindings_", "--features", "ts-gen/export",
                        "--features", "ts-gen/generate-metadata">>,
             env |-> None,
             stdout |-> IF args.no_capture THEN "inherit" ELSE "piped",
             state |-> "built", status |-> 0]
    IN IF ~dir.ok THEN [res |-> dir, command |-> started]
       ELSE [res |-> Ok(""),
             command |-> [started EXCEPT
                !.env = Some(dir.val),
                !.argv = @ \o feature(args.no_warnings, "no-serde-warnings")
                           \o feature(args.esm_imports, "import-esm")
                           \o feature(args.format, "format")
                           \o (IF args.no_capture THEN <<"--", "--nocapture">> ELSE <<"--quiet">>)]]

\* the CLI is started: invoke(&args) runs up to cargo_invocation.spawn()
Invoke ==
    /\ pc = "idle"
    /\ \E dir \in {None, Some("/srv/ts"), Some("web/types"), Some("../../ts")},
          no_capture \in BOOLEAN, no_warnings \in BOOLEAN, esm_imports \in BOOLEAN, format \in BOOLEAN,
          var \in EnvDirs, c \in Cwds :
        \E a \in {[output_directory |-> dir, no_capture |-> no_capture, no_warnings |-> no_warnings,
                   esm_imports |-> esm_imports, format |-> format]} :
        \E r \in {invoke(a, var, c)} :
            /\ op' = "invoke"
            /\ cli_args' = a
            /\ TS_GEN_EXPORT_DIR' = var
            /\ cwd' = c
            /\ out_dir' = export_dir(a, var)
            /\ cargo_invocation' = r.command
            /\ res' = r.res
            /\ pc' = IF r.res.ok THEN "spawn" ELSE "failed"
    /\ UNCHANGED <<ty, frontier, seen, buffers, files, dirs, input, features, stderr, parsed, dep, generated>>

\* cargo_invocation.spawn()?: the operating system starts the process or reports an error
Spawn ==
    /\ pc = "spawn"
    /\ \E started \in BOOLEAN :
        IF started
        THEN /\ cargo_invocation' = [cargo_invocation EXCEPT !.state = "spawned"]
             /\ pc' = "wait"
             /\ UNCHANGED res
        ELSE /\ res' = Err([kind |-> "io::Error", msg |-> "spawn"])
             /\ pc' = "failed"
             /\ UNCHANGED cargo_invocation
    /\ UNCHANGED <<op, ty, cwd, out_dir, frontier, seen, buffers, files, dirs>>
    /\ UNCHANGED <<input, features, stderr, parsed, dep, cli_args, TS_GEN_EXPORT_DIR, generated>>

\* .wait()?; Ok(()): the child exits with any status, or waiting for it reports an error
Wait ==
    /\ pc = "wait"
    /\ \E waited \in BOOLEAN, status \in {0, 101} :
        IF waited
        THEN /\ cargo_invocation' = [cargo_invocation EXCEPT !.state = "exited", !.status = status]
             /\ res' = Ok("")
             /\ pc' = "done"
        ELSE /\ status = 0
             /\ res' = Err([kind |-> "io::Error", msg |-> "wait"])
             /\ pc' = "failed"
             /\ UNCHANGED cargo_invocation
    /\ UNCHANGED <<op, ty, cwd, out_dir, frontier, seen, buffers, files, dirs>>
    /\ UNCHANGED <<input, features, stderr, parsed, dep, cli_args, TS_GEN_EXPORT_DIR, generated>>

CliNext ==
    \/ Invoke
    \/ Spawn
    \/ Wait
    \/ Restart

CliSpec == Init /\ [][CliNext]_vars

----------------------------------------------------------------------------
(* Properties of the contract's methods *)

\* the string p occurs in the string s
Contains(s, p) == \E i \in 0..(Len(s) - Len(p)) : SubSeq(s, i + 1, i + Len(p)) = p

\* the instantiations of the derive input of t among the types the host calls the contract on
Instantiations(t) == {u \in Types : u.k = "derived" /\ u.id = t.id}

\* C1: decl() of a derived generic type does not depend on the generic arguments it is called
\* with: every instantiation of the same type returns the same string
C1_DeclIndependentOfArguments ==
    (pc = "returned" /\ op = "decl" /\ ty.k = "derived" /\ Len(ty.args) > 0)
        => \A u \in Instantiations(ty) : TS("decl", u) = res

NonDeclarable == {"prim", "tuple", "wrapper", "option", "result", "vec", "array", "map", "range"}

\* C2: decl() and decl_concrete() called on a primitive, tuple, wrapper, Option, Result, Vec,
\* fixed-size array, map or range fail and return no string, whatever the inner types are
C2_NonDeclarableFails ==
    (pc = "returned" /\ op \in {"decl", "decl_concrete"} /\ ty.k \in NonDeclarable) => ~res.ok

\* decl() was called on a Box of a derived (declarable) type and failed
C2_Witness ==
    /\ pc = "returned"
    /\ op = "decl"
    /\ ty.k = "wrapper"
    /\ ty.args[1].k = "derived"
    /\ ~res.ok

\* the shape of t has no body of its own for method m: the call can only fail
NotSupported(m, t) ==
    CASE m \in {"decl", "decl_concrete"} -> t.k \in NonDeclarable \cup {"dummy"}
      [] m = "inline" -> t.k \in {"tuple", "range", "dummy"}
      [] m = "inline_flattened" ->
            \/ t.k \in (NonDeclarable \ {"wrapper"}) \cup {"dummy"}
            \/ t.k = "derived" /\ Derives[t.id].type_override.some
      [] OTHER -> FALSE

\* C3: when inline(), decl(), decl_concrete() or inline_flattened() fails because the shape does
\* not support the operation, the failure message contains name() of the type it was called
\* on, for every shape, tuples and wrappers included
C3_FailureNamesTheType ==
    (pc = "returned" /\ NotSupported(op, ty) /\ ~res.ok) => Contains(res.val, Name(ty))

\* C4: for a derived type without generic type parameters, decl() and decl_concrete() return
\* exactly the same string
C4_DeclEqualsDeclConcrete ==
    (pc = "returned" /\ op = "decl" /\ ty.k = "derived" /\ Len(Derives[ty.id].params) = 0)
        => res = TS("decl_concrete", ty)

\* decl() was called on the non-generic derived type A and returned its declaration
C4_Witness ==
    /\ pc = "returned"
    /\ op = "decl"
    /\ ty = DerivedT("A", <<>>)
    /\ res.ok
    /\ StartsWith(res.val, "type A = ")

\* C5 as stated: decl_concrete() of a derived type is the declaration "{name} = {inline}" with
\* {name} the type's name() and {inline} what its own inline() returns
C5_DeclConcreteUsesName ==
    (pc = "returned" /\ op = "decl_concrete" /\ ty.k = "derived" /\ res.ok)
        => /\ TS("inline", ty).ok
           /\ Contains(res.val, Name(ty) \o " = " \o TS("inline", ty).val)

\* C5 as amended: decl_concrete() of a derived type is "type {ident} = {inline};" with {ident}
\* the type's ident() (its name without generic arguments) and {inline} exactly what its own
\* inline() returns for the generic arguments of the call; it fails exactly as inline() fails;
\* no generic parameter list appears in it
C5_DeclConcreteUsesIdent ==
    (pc = "returned" /\ op = "decl_concrete" /\ ty.k = "derived")
        => /\ res.ok = TS("inline", ty).ok
           /\ res.ok => res.val = "type " \o TS("ident", ty).val \o " = " \o TS("inline", ty).val \o ";"
           /\ ~res.ok => res = TS("inline", ty)
           /\ res.ok => ~StartsWith(res.val, "type " \o TS("ident", ty).val \o "<")

\* decl_concrete() was called on the generic type G instantiated with String
C5_Witness ==
    /\ pc = "returned"
    /\ op = "decl_concrete"
    /\ ty = DerivedT("G", <<Prim("String")>>)
    /\ res = Ok("type Gen = { val: string, n: number };")

----------------------------------------------------------------------------
(* Properties of the exports *)

\* C6: export() on a type whose output_path() is None returns CannotBeExported carrying the
\* name of the type, and nothing was created or written when it returns
C6_ExportWithoutPathFails ==
    (op = "export" /\ pc \in Terminal /\ ~TS("output_path", ty).some)
        => /\ pc = "failed"
           /\ res = Err(CannotBeExported(type_name(ty)))
           /\ files = {}
           /\ dirs = {}

\* export() was called on Vec<i32>, which has no output path, and failed
C6_Witness ==
    /\ op = "export"
    /\ ty = VecT(Prim("i32"))
    /\ pc = "failed"
    /\ res.kind = "CannotBeExported"
    /\ res.val = "Vec<i32>"

\* the components of cs with "." dropped and every ".." cancelled against the component before it
RECURSIVE Normalized(_, _)
Normalized(cs, acc) ==
    IF Len(cs) = 0 THEN acc
    ELSE CASE cs[1] = "." -> Normalized(Tail(cs), acc)
           [] cs[1] = ".." /\ Len(acc) > 0 /\ acc[Len(acc)] \notin {"/", ".."} ->
                Normalized(Tail(cs), SubSeq(acc, 1, Len(acc) - 1))
           [] cs[1] = ".." /\ Len(acc) > 0 /\ acc[Len(acc)] = "/" -> Normalized(Tail(cs), acc)
           [] OTHER -> Normalized(Tail(cs), Append(acc, cs[1]))

\* the place path p denotes for a process whose working directory is c
Place(c, p) == Normalized(components(join(c, p)), <<>>)

\* the place q lies in the directory at place b
Inside(q, b) == Len(q) >= Len(b) /\ SubSeq(q, 1, Len(b)) = b

Count(cs, k, P(_)) == Cardinality({i \in 1..k : P(cs[i])})

IsParentDir(c) == c = ".."
IsPushed(c) == c \notin {".", ".."}

\* reading cs from the left, a ".." is met when every component before it is already cancelled
ClimbsAboveRoot(cs) ==
    \E k \in 1..Len(cs) : cs[k] = ".." /\ Count(cs, k, IsParentDir) > Count(cs, k, IsPushed)

\* the path of output location loc under the base directory is rejected
Rejected(loc) ==
    /\ ~is_absolute(join(out_dir, loc))
    /\ ClimbsAboveRoot(components(join(cwd, join(out_dir, loc))))

ExpectedOutputPath(d) ==
    IF ~d.export_to.some THEN d.ts_name \o ".ts"
    ELSE IF SubSeq(d.export_to.val, Len(d.export_to.val), Len(d.export_to.val)) = "/"
    THEN d.export_to.val \o d.ts_name \o ".ts"
    ELSE d.export_to.val

FileOf(loc, name, from) ==
    \E f \in files :
        /\ f.loc = loc
        /\ Len(f.decls) = 1
        /\ f.imports = {[from |-> from, names |-> {name}]}

\* export_all of A (A -> B -> A) ended with exactly two files, each importing the other
TwoFilesImportingEachOther ==
    /\ pc = "done"
    /\ Cardinality(files) = 2
    /\ FileOf("A.ts", "B", "B.ts")
    /\ FileOf("B.ts", "A", "A.ts")

\* C9: export_all always terminates, also on a cyclic graph: for A whose only dependency is B,
\* which depends back on A, the walk ends with exactly two files, each importing the other
C9_ExportAllTerminates ==
    /\ (pc = "walk") ~> (pc \in Terminal)
    /\ [](op = "export_all" /\ ty = DerivedT("A", <<>>) /\ pc = "done" => TwoFilesImportingEachOther)

\* export_all of A is done and left two files
C9_Witness ==
    /\ op = "export_all"
    /\ ty = DerivedT("A", <<>>)
    /\ TwoFilesImportingEachOther

\* the positions of sequence es whose type identity is id
Holding(es, id) == {i \in DOMAIN es : es[i].type_id = id}

\* C10: every output location holds at most one declaration per type identity: a type reached
\* through several paths, or listed several times, is visited once and declared once
C10_OneDeclarationPerIdentity ==
    /\ \A id \in seen : Cardinality(Holding(buffers, id)) <= 1
    /\ \A i \in DOMAIN buffers : buffers[i].type_id \in seen
    /\ \A f \in files : \A i \in DOMAIN f.decls : Cardinality(Holding(f.decls, f.decls[i].type_id)) = 1
    /\ (op = "export_all" /\ pc = "done")
          => \A id \in seen : TS("output_path", id).some =>
                Cardinality({f \in files : Holding(f.decls, id) # {}}) = 1

\* export_all of Multi, which lists Ov three times and shares its output location, is done:
\* the one file holds the two declarations
C10_Witness ==
    /\ op = "export_all"
    /\ ty = DerivedT("Multi", <<>>)
    /\ pc = "done"
    /\ \E f \in files : Len(f.decls) = 2

----------------------------------------------------------------------------
(* Properties of Inflection::apply *)

\* every character of s is an ASCII character
Ascii(s) == \A i \in 1..Len(s) : Find(LowerCase \o UpperCase \o "0123456789_$-\"", SubSeq(s, i, i)) # 0

LettersAfterFirst(s) == \E i \in 2..Len(s) : is_lowercase(Chars(s)[i]) \/ is_uppercase(Chars(s)[i])

\* variant v is applied again to what it returned for the ASCII identifier input.string
Reapplied(v) == ApplyAgain /\ input.variant = v /\ IsIdentifier(input.string) /\ Ascii(input.string)

\* C11 (as stated): applying upper, lower or screaming-snake to what it returned for a
\* non-empty ASCII identifier returns the same string again
C11_Idempotent ==
    [][\A v \in {"Upper", "Lower", "ScreamingSnake"} : Reapplied(v) => res' = res]_vars

\* C11 (amended): upper and lower are idempotent on every identifier; screaming-snake
\* returns the same string again exactly when no letter follows the first character
C11_IdempotentUpperLower ==
    [][/\ \A v \in {"Upper", "Lower"} : Reapplied(v) => res' = res
       /\ Reapplied("ScreamingSnake") => (res' = res <=> ~LettersAfterFirst(input.string))]_vars

C11_Witness ==
    /\ op = "apply_again"
    /\ input.variant = "Upper"
    /\ input.string = "USER_ID"
    /\ res = Ok("USER_ID")

\* s is written with ASCII letters and single underscores that separate them
LettersAndSeparators(s) ==
    /\ Len(s) > 0
    /\ Ascii(s)
    /\ \A i \in 1..Len(s) : is_lowercase(Chars(s)[i]) \/ is_uppercase(Chars(s)[i]) \/ Chars(s)[i] = "_"
    /\ SubSeq(s, 1, 1) # "_"
    /\ SubSeq(s, Len(s), Len(s)) # "_"
    /\ ~Contains(s, "__")

\* C12: for a string of ASCII letters and single separating underscores, the pascal form,
\* converted to snake and back to pascal, is the pascal form again
C12_PascalSnakePascal ==
    (op = "apply" /\ pc = "returned" /\ input.variant = "Pascal" /\ LettersAndSeparators(input.string))
        => apply("Pascal", apply("Snake", res.val).val) = res

C12_Witness ==
    /\ op = "apply"
    /\ pc = "returned"
    /\ input = Input("Pascal", "user_id", <<>>)
    /\ res = Ok("UserId")
    /\ apply("Snake", res.val) = Ok("user_id")

\* C13: apply has no error case: for each of the eight variants and every input string,
\* the empty string and strings of underscores included, it returns a string
C13_ApplyNeverFails ==
    (op \in {"apply", "apply_again"} /\ pc = "returned" /\ input.variant \in Inflection) => res.ok

\* C14: a declared name renamed through rename_all = "camelCase" gets its pascal-case form
\* with the first letter lowercased, which contains no underscore; user_id becomes userId
C14_CamelCase ==
    (op = "apply" /\ pc = "returned" /\ input.variant = InflectionOf["camelCase"] /\ IsIdentifier(input.string))
        => /\ res.ok
           /\ res.val = char_to_ascii_lowercase(SubSeq(pascal(input.string), 1, 1))
                             \o SubSeq(pascal(input.string), 2, Len(pascal(input.string)))
           /\ ~Contains(res.val, "_")
           /\ input.string = "user_id" => res.val = "userId"

----------------------------------------------------------------------------
(* Properties of the attribute parsers *)

\* the call of parser m on the attributes of an item has returned (or panicked)
Parsed(m) == op = m /\ pc = "returned"

\* attrs[n] is a native occurrence whose item i carries a key the native dialect does not accept
UnknownAt(attrs, n, i) ==
    /\ attrs[n].path = "ts"
    /\ \A k \in 1..Len(Keys("ts")) : Keys("ts")[k] # attrs[n].items[i].key

\* nothing fails before item i of attrs[n]: the native occurrences before it parse, and so do its items before i
FirstFailure(attrs, n, i) ==
    /\ \A j \in 1..(n - 1) : attrs[j].path = "ts" => try_from(attrs[j]).ok
    /\ i > 1 => parse_loop(Punctuated(SubSeq(attrs[n].items, 1, i - 1)), Keys("ts"), Default).ok

\* C15: a native attribute with an unrecognized key makes the parse fail and produce no
\* attribute set; the error of the first such key names it and lists the accepted keys
C15_UnknownKeyFails ==
    Parsed("parse_attrs") =>
        \A n \in 1..Len(input.attrs) : \A i \in 1..Len(input.attrs[n].items) :
            UnknownAt(input.attrs, n, i) =>
                /\ ~res.ok
                /\ res.kind = "syn::Error"
                /\ ~parsed.some
                /\ FirstFailure(input.attrs, n, i) =>
                      /\ StartsWith(res.val, "Unknown attribute \"" \o input.attrs[n].items[i].key \o "\"")
                      /\ \A k \in 1..Len(Keys("ts")) : Contains(res.val, "\"" \o Keys("ts")[k] \o "\"")

C15_Witness ==
    /\ Parsed("parse_attrs")
    /\ input.attrs = << Attribute("ts", <<Item("rename", "str", "X"), Item("bound", "str", "T: B")>>),
                        Attribute("ts", <<Item("export", "none", ""), Item("colour", "str", "red")>>) >>
    /\ res = Err([kind |-> "syn::Error",
                  msg |-> "Unknown attribute \"colour\". Allowed attributes are: "
                              \o "\"rename\", \"rename_all\", \"export\", \"bound\""])
    /\ ~parsed.some

\* the serde occurrences of attrs that parse, in source order
Parseable(attrs) == SelectSeq(attrs, LAMBDA a : a.path = "serde" /\ try_from(a).ok)

\* C16: parse_serde_attrs always returns: an occurrence that does not parse is left out,
\* and the occurrences that parse are merged
C16_SerdeNeverAborts ==
    Parsed("parse_serde_attrs") =>
        /\ res.ok
        /\ parsed = Some(fold(Default, [i \in 1..Len(Parseable(input.attrs)) |->
                                            try_from(Parseable(input.attrs)[i]).out.val]))

\* C17: built with the feature no-serde-warnings the macro writes no warning;
\* a warning is written only when the feature is off
C17_WarningsSuppressed ==
    Parsed("parse_serde_attrs") => ("no-serde-warnings" \in features => Len(stderr.written) = 0)

\* the attribute sets of the native occurrences of attrs, in source order
NativeSets(attrs) ==
    [i \in 1..Len(filter(attrs, "ts")) |-> try_from(filter(attrs, "ts")[i]).out.val]

\* field f as the last of the sets that sets it has it, unset when none does
LastSet(sets, f) ==
    IF \A i \in 1..Len(sets) : ~sets[i][f].some THEN None
    ELSE sets[CHOOSE i \in 1..Len(sets) : sets[i][f].some /\ \A j \in (i + 1)..Len(sets) : ~sets[j][f].some][f]

\* the native occurrences of attrs all parse
AllNativeParse(attrs) == \A i \in 1..Len(attrs) : attrs[i].path = "ts" => try_from(attrs[i]).ok

\* the error of the first native occurrence of attrs that does not parse
FirstNativeError(attrs) ==
    try_from(attrs[CHOOSE i \in 1..Len(attrs) :
        /\ attrs[i].path = "ts" /\ ~try_from(attrs[i]).ok
        /\ \A j \in 1..(i - 1) : attrs[j].path = "ts" => try_from(attrs[j]).ok]).err

\* C18: the native occurrences are merged in source order, a later one overriding an
\* earlier one field by field (lists concatenate); occurrences of other names do not count;
\* if a native occurrence does not parse, the result is its error
C18_MergeInSourceOrder ==
    Parsed("parse_attrs") =>
        IF AllNativeParse(input.attrs)
        THEN /\ res.ok
             /\ parsed.some
             /\ parsed.val.rename = LastSet(NativeSets(input.attrs), "rename")
             /\ parsed.val.rename_all = LastSet(NativeSets(input.attrs), "rename_all")
             /\ parsed.val.export = (\E i \in 1..Len(NativeSets(input.attrs)) : NativeSets(input.attrs)[i].export)
             /\ parsed.val.bound =
                    Flatten([i \in 1..Len(NativeSets(input.attrs)) |-> NativeSets(input.attrs)[i].bound])
        ELSE /\ res = Err([kind |-> "syn::Error", msg |-> FirstNativeError(input.attrs)])
             /\ ~parsed.some

C18_Witness ==
    /\ Parsed("parse_attrs")
    /\ input.attrs = << Attribute("ts", <<Item("rename_all", "str", "camelCase"), Item("bound", "str", "T: A")>>),
                        Attribute("ts", <<Item("rename", "str", "X"), Item("bound", "str", "T: B")>>),
                        Attribute("ts", <<Item("rename", "str", "Y"), Item("export", "none", "")>>) >>
    /\ parsed = Some(AttributeSet(Some("Y"), Some("Camel"), TRUE, <<"T: A", "T: B">>))

----------------------------------------------------------------------------
(* Properties of raw_name_to_ts_field *)

\* every character of s is a letter (ASCII or not), a digit, an underscore or a dollar sign,
\* and the first is no digit
PlainName(s) ==
    /\ \A i \in 1..Len(s) : Find(LowerCase \o UpperCase \o "éÉ" \o "0123456789_$", SubSeq(s, i, i)) # 0
    /\ Len(s) > 0 => Find("0123456789", SubSeq(s, 1, 1)) = 0

----------------------------------------------------------------------------
(* Properties of output_path and Dependency::from_ty *)

\* the shapes the library implements the contract for
BuiltIn == {"prim", "tuple", "wrapper", "option", "result", "vec", "array", "map", "range"}

\* C20: a built-in shape never has an output path, whatever its inner types are, and a
\* derived type always has one; from_ty returns None exactly when output_path() is None,
\* and otherwise the type's identity, its ident() and its output_path()
C20_OutputPathAndFromTy ==
    /\ Parsed("output_path") =>
          /\ ty.k \in BuiltIn => ~res.some
          /\ ty.k = "derived" => res.some
    /\ Parsed("from_ty") =>
          /\ dep.some <=> TS("output_path", ty).some
          /\ ty.k \in BuiltIn => ~dep.some
          /\ dep.some => dep.val = Dependency(ty, TS("ident", ty).val, TS("output_path", ty).val)

C20_Witness ==
    /\ Parsed("from_ty")
    /\ ty = DerivedT("G", <<VecT(DerivedT("A", <<>>))>>)
    /\ dep = Some(Dependency(ty, "Gen", "gen/Gen.ts"))
    /\ from_ty(VecT(DerivedT("A", <<>>))) = None

----------------------------------------------------------------------------
(* Properties of the CLI wrapper *)

\* the CLI evaluated path::absolute(path::export_dir(&args)): invoke was called
Invoked == op = "invoke" /\ pc # "idle"

\* C21: the output base directory is the output directory argument when one is given,
\* otherwise the value of TS_GEN_EXPORT_DIR when it is set, otherwise ./bindings
C21_ExportDirPrecedence ==
    Invoked =>
        /\ cli_args.output_directory.some => out_dir = cli_args.output_directory.val
        /\ ~cli_args.output_directory.some /\ TS_GEN_EXPORT_DIR.some => out_dir = TS_GEN_EXPORT_DIR.val
        /\ ~cli_args.output_directory.some /\ ~TS_GEN_EXPORT_DIR.some => out_dir = "./bindings"

C21_Witness ==
    /\ Invoked
    /\ cli_args.output_directory = Some("web/types")
    /\ TS_GEN_EXPORT_DIR = Some("/out")
    /\ out_dir = "web/types"
    /\ cargo_invocation.env = Some("/w/p/web/types")

\* C30: the export directory is resolved before anything is launched: when the resolution
\* fails invoke returns that error and no cargo process is spawned, a spawned process was
\* given the resolved directory, and once cargo was spawned and waited for invoke returns
\* Ok whatever the exit status was
C30_ResolveBeforeSpawn ==
    Invoked =>
        /\ ~path_absolute(cwd, out_dir).ok =>
              /\ pc = "failed"
              /\ res = path_absolute(cwd, out_dir)
              /\ cargo_invocation.state = "built"
        /\ cargo_invocation.state \in {"spawned", "exited"} =>
              /\ path_absolute(cwd, out_dir).ok
              /\ cargo_invocation.env = Some(path_absolute(cwd, out_dir).val)
        /\ cargo_invocation.state = "exited" => pc = "done" /\ res = Ok("")

C30_Witness ==
    /\ Invoked
    /\ cargo_invocation.state = "exited"
    /\ cargo_invocation.status = 101
    /\ res = Ok("")
    /\ cli_args.output_directory = Some("../../ts")
    /\ cargo_invocation.env = Some("/ts")

----------------------------------------------------------------------------
(* Properties of dependencies() *)

\* the entries of the type list tl that have an output path, in the order of tl
Exportable(tl) == SelectSeq(tl, LAMBDA u : TS("output_path", u).some)

\* C22: dependencies() holds one Dependency per entry of dependency_types() that has an
\* output path, in the order of dependency_types(): entries without an output path are
\* dropped, and an entry listed several times appears as many times
C22_DependenciesOfDependencyTypes ==
    Parsed("dependencies") =>
        /\ Len(res.val) = Len(Exportable(TS("dependency_types", ty)))
        /\ \A i \in 1..Len(res.val) :
              LET u == Exportable(TS("dependency_types", ty))[i]
              IN res.val[i] = [type_id |-> u, ts_name |-> TS("ident", u).val,
                           output_path |-> TS("output_path", u).val]

C22_Witness ==
    /\ Parsed("dependencies")
    /\ ty = DerivedT("Multi", <<>>)
    /\ TS("dependency_types", ty) =
          <<DerivedT("Ov", <<>>), OptionT(DerivedT("Ov", <<>>)), DerivedT("Ov", <<>>), DerivedT("Ov", <<>>)>>
    /\ Len(res.val) = 3
    /\ \A i \in 1..3 : res.val[i] = Dependency(DerivedT("Ov", <<>>), "Ov", "nested/dir/name.ts")

----------------------------------------------------------------------------
(* Properties of fixed-size arrays *)

\* the text is a TypeScript tuple of n elements, each of them the text elem
TupleOf(text, elem, n) ==
    /\ Len(text) = 2 + n * Len(elem) + (IF n = 0 THEN 0 ELSE 2 * (n - 1))
    /\ SubSeq(text, 1, 1) = "[" /\ SubSeq(text, Len(text), Len(text)) = "]"
    /\ \A i \in 1..n : SubSeq(text, 2 + (i - 1) * (Len(elem) + 2), 1 + (i - 1) * (Len(elem) + 2) + Len(elem)) = elem
    /\ \A i \in 1..(n - 1) : SubSeq(text, 2 + (i - 1) * (Len(elem) + 2) + Len(elem), 3 + (i - 1) * (Len(elem) + 2) + Len(elem)) = ", "

\* C23: name() of [T; N] is a tuple of N copies of T's name and inline() a tuple of N
\* copies of T's inline form when N <= 64, 0 and 64 included; when N > 64 they are name()
\* and inline() of Vec<T>, Array<..>; the two methods change form at the same N
C23_ArrayTupleLimit ==
    pc = "returned" /\ ty.k = "array" /\ op \in {"name", "inline"} =>
        LET T == ty.args[1]
            elem == IF op = "name" THEN Ok(Name(T)) ELSE TS("inline", T)
            vec == IF op = "name" THEN Ok(Name(VecT(T))) ELSE TS("inline", VecT(T))
        IN /\ ty.n <= 64 /\ elem.ok => res.ok /\ TupleOf(res.val, elem.val, ty.n)
           /\ ty.n > 64 => res = vec /\ (elem.ok => res = Ok("Array<" \o elem.val \o ">"))
           /\ elem.ok => (TupleOf(res.val, elem.val, ty.n) <=> TupleOf(Name(ty), Name(T), ty.n))

C23_Witness ==
    /\ pc = "returned"
    /\ op = "inline"
    /\ ty = ArrayT(DerivedT("G", <<Prim("i32")>>), 64)
    /\ res.ok
    /\ TupleOf(res.val, "{ val: number, n: number }", 64)
    /\ Name(ty) = "[" \o JoinStr([i \in 1..64 |-> "Gen<number>"], ", ") \o "]"
    /\ Name(ArrayT(ty.args[1], 65)) = "Array<Gen<number>>"
    /\ Name(ArrayT(ty.args[1], 0)) = "[]"

----------------------------------------------------------------------------
(* Properties of ident() *)

\* the part of s before its first '<', the whole of s when it has none
BeforeGenerics(s) ==
    IF \E i \in 1..Len(s) : SubSeq(s, i, i) = "<"
    THEN SubSeq(s, 1, (CHOOSE i \in 1..Len(s) : SubSeq(s, i, i) = "<" /\ \A j \in 1..(i - 1) : SubSeq(s, j, j) # "<") - 1)
    ELSE s

\* C24: for every type ident() returns a string without '<': the TypeScript name of a
\* derived type, and for any other type, maps included, the part of name() before its first '<'
C24_IdentIsBareName ==
    Parsed("ident") =>
        /\ res.ok
        /\ ~Contains(res.val, "<")
        /\ ty.k = "derived" => res.val = Derives[ty.id].ts_name
        /\ ty.k # "derived" => res.val = BeforeGenerics(Name(ty))

----------------------------------------------------------------------------
(* Properties of the inflections on non-ASCII input *)

\* the non-ASCII characters of s, in order
NonAscii(s) == SelectSeq(Chars(s), LAMBDA c : ~Ascii(c))

\* snake-case with ASCII-only case operations: a '_' before every ASCII uppercase letter
\* that is not the first character, every ASCII letter lowercased, anything else unchanged
AsciiSnake(s) ==
    JoinStr([i \in 1..Len(s) |->
        IF Find(UpperCase, Chars(s)[i]) = 0 THEN Chars(s)[i]
        ELSE (IF i = 1 THEN "" ELSE "_") \o SubSeq(LowerCase, Find(UpperCase, Chars(s)[i]), Find(UpperCase, Chars(s)[i]))], "")

\* C26: snake-case puts one '_' before every uppercase letter that is not the first
\* character and lowercases every letter, with ASCII-only case operations; every
\* inflection leaves the non-ASCII characters of its input unchanged, and none of them
\* triggers a separator
C26_AsciiOnlyInflection ==
    (op = "apply" /\ pc = "returned" /\ res.ok) =>
        /\ input.variant = "Snake" => res.val = AsciiSnake(input.string)
        /\ NonAscii(res.val) = NonAscii(input.string)

----------------------------------------------------------------------------
(* Properties of the generated export test *)

\* the filter the CLI hands to `cargo test`: the argument after the subcommand
TestFilter == invoke(NoArgs, None, "/").command.argv[2]

\* the Rust name of the item without the raw-identifier prefix
BareIdent(s) == IF StartsWith(s, "r#") THEN SubSeq(s, 3, Len(s)) ELSE s

\* C25: the macro generates an export test exactly for an item that carries #[ts(export)]
\* in a build with the feature `export`; the test is named export_bindings_ followed by the
\* lowercased Rust name without r#, which the filter of the CLI selects, and it calls
\* export_all() on the type
C25_ExportTestGenerated ==
    (op = "into_impl" /\ pc = "returned") =>
        /\ generated.some <=> (Derives[input.variant].export /\ "export" \in features)
        /\ generated.some =>
            /\ generated.val.test_fn = "export_bindings_" \o to_lowercase(BareIdent(input.string))
            /\ Contains(generated.val.test_fn, TestFilter)
            /\ generated.val.attrs = <<"cfg(test)", "test">>
            /\ generated.val.call = "export_all"
            /\ generated.val.ty.k = "derived"
            /\ generated.val.ty.id = input.variant

C25_Witness ==
    /\ op = "into_impl"
    /\ pc = "returned"
    /\ input.string = "r#Multi"
    /\ features = {"export", "serde-compat"}
    /\ generated.some
    /\ generated.val.test_fn = "export_bindings_multi"

----------------------------------------------------------------------------
(* Properties of absolute() *)

\* absolute(p) of the copy that was called, in the working directory of the call
AbsoluteOf(p) == IF input.variant = "export" THEN absolute(cwd, p) ELSE path_absolute(cwd, p)

\* the path a result holds, as Path compares paths: by components
SamePath(r, s) == r.ok /\ s.ok /\ components(r.val) = components(s.val)

\* C27: a path returned by absolute() is absolute, has no "." and no ".." component, and
\* absolute() maps it to itself
C27_AbsoluteIsNormalForm ==
    (op = "absolute" /\ pc = "returned" /\ res.ok) =>
        /\ is_absolute(res.val)
        /\ \A i \in 1..Len(components(res.val)) : components(res.val)[i] \notin {".", ".."}
        /\ SamePath(AbsoluteOf(res.val), res)

----------------------------------------------------------------------------
(* Properties of the loop of impl_parse! *)

\* what is wrong with the entry it where the keys of the dialect are expected: the start of
\* the error it raises, or "" when the entry is a known key with its value
ItemDefect(path, it) ==
    IF \A k \in 1..Len(Keys(path)) : Keys(path)[k] # it.key
    THEN "Unknown attribute \"" \o it.key \o "\""
    ELSE IF it.key = "export" THEN (IF it.lit = "none" THEN "" ELSE "expected ,")
    ELSE IF it.lit = "none" THEN "expected ="
    ELSE IF it.lit # "str" THEN "expected string"
    ELSE IF it.key = "rename_all" /\ it.val \notin DOMAIN InflectionOf THEN "Value \"" \o it.val \o "\""
    ELSE ""

\* what is wrong at entry i of the occurrence a: the entry itself, a comma missing after it,
\* or a comma after the last entry
Defect(a, i) ==
    IF ItemDefect(a.path, a.items[i]) # "" THEN ItemDefect(a.path, a.items[i])
    ELSE IF i < Len(a.items) /\ ~a.items[i].comma THEN "expected ,"
    ELSE IF i = Len(a.items) /\ a.items[i].comma THEN "unexpected end of input"
    ELSE ""

\* the values assigned to key in the occurrence a, from left to right
Assigned(a, key) ==
    LET at == SelectSeq(a.items, LAMBDA it : it.key = key)
    IN [i \in 1..Len(at) |-> at[i].val]

\* C28: try_from accepts exactly a non-empty list of known keys with their values, separated
\* by commas, without a trailing comma; it assigns the keys from left to right; otherwise it
\* returns the error of the leftmost defect and no attribute set
C28_PunctuatedKnownKeys ==
    Parsed("try_from") =>
        LET a == input.attrs[1]
            bad == {i \in 1..Len(a.items) : Defect(a, i) # ""}
        IN /\ res.ok <=> (Len(a.items) > 0 /\ bad = {})
           /\ res.ok =>
                /\ parsed.some
                /\ parsed.val.rename =
                      (IF Len(Assigned(a, "rename")) = 0 THEN None
                       ELSE Some(Assigned(a, "rename")[Len(Assigned(a, "rename"))]))
                /\ parsed.val.bound = Assigned(a, "bound")
                /\ parsed.val.export = (Len(Assigned(a, "export")) > 0)
           /\ ~res.ok =>
                /\ ~parsed.some
                /\ res.kind = "syn::Error"
                /\ Len(a.items) = 0 => StartsWith(res.val, "unexpected end of input")
                /\ \A i \in bad : (\A j \in bad : i <= j) => StartsWith(res.val, Defect(a, i))

\* a trailing comma after two good entries is refused
C28_Witness ==
    /\ Parsed("try_from")
    /\ input.attrs = <<Tokens("ts", <<Meta("rename", "str", "X", TRUE), Meta("export", "none", "", TRUE)>>)>>
    /\ ~res.ok
    /\ res.val = "unexpected end of input, expected identifier"
    /\ ~parsed.some

----------------------------------------------------------------------------
(* Properties of inline() on containers and wrappers *)

\* the containers and wrappers whose inline() formats the inline() of their inner types
FormatsInner(t) ==
    \/ t.k \in {"option", "vec", "map", "result", "wrapper"}
    \/ t.k = "array" /\ t.n >= 1

\* inline() of one of the inner types of t fails
InnerInlineFails(t) == \E i \in 1..Len(t.args) : ~TS("inline", t.args[i]).ok

\* C29: inline() of a tuple and of a Range always fails; inline() of Option<T>, Vec<T>,
\* [T; N] with N >= 1, a map, a Result or a wrapper fails exactly when inline() of one of its
\* inner types fails; name() of any of these types returns
C29_InlineFailurePropagates ==
    /\ Parsed("inline") =>
          /\ ty.k \in {"tuple", "range"} => ~res.ok
          /\ FormatsInner(ty) => (~res.ok <=> InnerInlineFails(ty))
    /\ (Parsed("name") /\ (FormatsInner(ty) \/ ty.k \in {"tuple", "range"})) => res.ok

\* Vec<(i32, String)>::inline() fails with the panic of the tuple
C29_Witness ==
    /\ Parsed("inline")
    /\ ty = VecT(Tuple(<<Prim("i32"), Prim("String")>>))
    /\ Name(ty) = "Array<[number, string]>"
    /\ res = Panic("tuple cannot be inlined!")

====
